---------------------------- MODULE Spec2Model ----------------------------
(***************************************************************************)
(* Model of the query-safety and fallback-resolution layer of the Cosmos   *)
(* MCP client (src/python/Streamable_HTTP/client.py).                       *)
(*                                                                         *)
(* Text is modelled at the character level: a text is a sequence of        *)
(* characters (strings), and the regular expressions of the source are    *)
(* evaluated by a small matcher (Ends) over regex syntax trees, so that    *)
(* rewriting, trimming and matching are computed as the code computes them.*)
(***************************************************************************)
EXTENDS Integers, Sequences, FiniteSets, TLC

(***************************************************************************)
(* Characters and elementary string functions                              *)
(***************************************************************************)
NL == "\n"
WS == {" ", "\t", NL}

UpperToLower ==
  [c \in {"A","B","C","D","E","F","G","H","I","J","K","L","M","N","O","P","Q",
          "R","S","T","U","V","W","X","Y","Z"} |->
     CASE c = "A" -> "a" [] c = "B" -> "b" [] c = "C" -> "c" [] c = "D" -> "d"
       [] c = "E" -> "e" [] c = "F" -> "f" [] c = "G" -> "g" [] c = "H" -> "h"
       [] c = "I" -> "i" [] c = "J" -> "j" [] c = "K" -> "k" [] c = "L" -> "l"
       [] c = "M" -> "m" [] c = "N" -> "n" [] c = "O" -> "o" [] c = "P" -> "p"
       [] c = "Q" -> "q" [] c = "R" -> "r" [] c = "S" -> "s" [] c = "T" -> "t"
       [] c = "U" -> "u" [] c = "V" -> "v" [] c = "W" -> "w" [] c = "X" -> "x"
       [] c = "Y" -> "y" [] c = "Z" -> "z"]

LowerCh(c) == IF c \in DOMAIN UpperToLower THEN UpperToLower[c] ELSE c

\* str.lower()
Lower(s) == [i \in 1..Len(s) |-> LowerCh(s[i])]

Letters == {"a","b","c","d","e","f","g","h","i","j","k","l","m","n","o","p","q",
            "r","s","t","u","v","w","x","y","z"}
Digits == {"0","1","2","3","4","5","6","7","8","9"}
\* the characters the regex class \w matches (after lowering)
WordCh == Letters \cup Digits \cup {"_"}

IsWordAt(s, i) == i >= 1 /\ i <= Len(s) /\ LowerCh(s[i]) \in WordCh

RECURSIVE LStripFrom(_, _)
LStripFrom(s, i) ==
  IF i <= Len(s) /\ s[i] \in WS THEN LStripFrom(s, i + 1) ELSE i

RECURSIVE RStripTo(_, _)
RStripTo(s, j) ==
  IF j >= 1 /\ s[j] \in WS THEN RStripTo(s, j - 1) ELSE j

\* str.rstrip()
RStrip(s) == SubSeq(s, 1, RStripTo(s, Len(s)))

\* str.strip()
Strip(s) ==
  LET i == LStripFrom(s, 1)
      j == RStripTo(s, Len(s))
  IN IF i > j THEN <<>> ELSE SubSeq(s, i, j)

\* the substring test (sub in s)
Contains(s, sub) ==
  \E p \in 0..(Len(s) - Len(sub)) : SubSeq(s, p + 1, p + Len(sub)) = sub

SetMax(S) == CHOOSE x \in S : \A y \in S : y <= x
SetMin(S) == CHOOSE x \in S : \A y \in S : x <= y

(***************************************************************************)
(* Regular expressions (module re, flags IGNORECASE and, where the source  *)
(* says so, MULTILINE).  A position p in 0..Len(s) lies between s[p] and   *)
(* s[p+1].  Ends(r, s, p) is the set of positions at which a match of r    *)
(* that starts at p can end.                                               *)
(***************************************************************************)
Ch(S)    == [k |-> "ch", s |-> S]      \* one character of S (case-insensitive)
NotCh(S) == [k |-> "nch", s |-> S]     \* one character outside S
Cat(rs)  == [k |-> "cat", rs |-> rs]
Alt(rs)  == [k |-> "alt", rs |-> rs]
Star(r)  == [k |-> "star", r |-> r]
Eps      == [k |-> "cat", rs |-> <<>>]
Plus(r)  == Cat(<<r, Star(r)>>)
Opt(r)   == Alt(<<r, Eps>>)
Bol      == [k |-> "bol"]              \* ^ under MULTILINE
Eol      == [k |-> "eol"]              \* $ under MULTILINE
EndStr   == [k |-> "end"]              \* $ without MULTILINE
WordB    == [k |-> "wb"]               \* \b
Lit(str) == Cat([i \in 1..Len(str) |-> Ch({LowerCh(str[i])})])
Sp       == Ch(WS)                     \* \s

RECURSIVE Ends(_, _, _), EndsCat(_, _, _, _), StarClose(_, _, _)
Ends(r, s, p) ==
  CASE r.k = "ch"   -> IF p < Len(s) /\ LowerCh(s[p + 1]) \in r.s THEN {p + 1} ELSE {}
    [] r.k = "nch"  -> IF p < Len(s) /\ s[p + 1] \notin r.s THEN {p + 1} ELSE {}
    [] r.k = "cat"  -> EndsCat(r.rs, 1, s, {p})
    [] r.k = "alt"  -> UNION {Ends(r.rs[i], s, p) : i \in 1..Len(r.rs)}
    [] r.k = "star" -> StarClose(r.r, s, {p})
    [] r.k = "bol"  -> IF p = 0 \/ s[p] = NL THEN {p} ELSE {}
    [] r.k = "eol"  -> IF p = Len(s) \/ s[p + 1] = NL THEN {p} ELSE {}
    [] r.k = "end"  -> IF p = Len(s) \/ (p = Len(s) - 1 /\ s[Len(s)] = NL)
                       THEN {p} ELSE {}
    [] r.k = "wb"   -> IF IsWordAt(s, p) # IsWordAt(s, p + 1) THEN {p} ELSE {}

EndsCat(rs, i, s, P) ==
  IF i > Len(rs) \/ P = {} THEN P
  ELSE EndsCat(rs, i + 1, s, UNION {Ends(rs[i], s, q) : q \in P})

StarClose(r, s, P) ==
  LET N == P \cup UNION {Ends(r, s, q) : q \in P}
  IN IF N = P THEN P ELSE StarClose(r, s, N)

\* re.match: does r match at the start of s
Matches(r, s) == Ends(r, s, 0) # {}

\* positions at which a match of r starts
Starts(r, s) == {p \in 0..Len(s) : Ends(r, s, p) # {}}

\* re.search: is there a match anywhere
Search(r, s) == Starts(r, s) # {}

\* the leftmost match [from, to] of r in s at or after position p0.  The
\* quantifiers of every pattern below are greedy and followed by a character
\* they cannot consume, or by an anchor, so the match the regex engine
\* reports is the longest one that starts at the leftmost start.
MatchAt(r, s, p) == [from |-> p, to |-> SetMax(Ends(r, s, p))]

FirstMatch(r, s, p0) == MatchAt(r, s, SetMin({p \in Starts(r, s) : p >= p0}))

HasMatchFrom(r, s, p0) == \E p \in Starts(r, s) : p >= p0


\* the first alternative of rs (in order) that matches at the leftmost start
\* at or after p0: the choice re makes for r1|r2|...
FirstAltAt(rs, s, p) ==
  MatchAt(rs[SetMin({j \in 1..Len(rs) : Ends(rs[j], s, p) # {}})], s, p)

FirstMatchAlts(rs, s, p0) ==
  FirstAltAt(rs, s, SetMin({q \in Starts(Alt(rs), s) : q >= p0}))

\* re.sub("", s) for the ordered alternatives rs, none of which matches the
\* empty string: every non-overlapping match, left to right, is removed
RECURSIVE RemoveAll(_, _, _), RemoveMatch(_, _, _, _)
RemoveAll(rs, s, p0) ==
  IF ~HasMatchFrom(Alt(rs), s, p0) THEN SubSeq(s, p0 + 1, Len(s))
  ELSE RemoveMatch(rs, s, p0, FirstMatchAlts(rs, s, p0))

\* the text from p0 to the match m, then the rest without its matches
RemoveMatch(rs, s, p0, m) == SubSeq(s, p0 + 1, m.from) \o RemoveAll(rs, s, m.to)

(***************************************************************************)
(* Helpers of client.py                                                    *)
(***************************************************************************)
\* the phrases of GREETING_PAT
GreetingWords ==
  Alt(<< Lit(<<"h","i">>),
         Lit(<<"h","e","l","l","o">>),
         Lit(<<"h","e","y">>),
         Lit(<<"g","r","e","e","t","i","n","g","s">>),
         Cat(<< Lit(<<"g","o","o","d">>), Plus(Sp),
                Alt(<< Lit(<<"m","o","r","n","i","n","g">>),
                       Lit(<<"a","f","t","e","r","n","o","o","n">>),
                       Lit(<<"e","v","e","n","i","n","g">>) >>) >>),
         Cat(<< Lit(<<"t","h","a","n","k">>), Opt(Lit(<<"s">>)) >>),
         Cat(<< Lit(<<"t","h","a","n","k">>), Plus(Sp), Lit(<<"y","o","u">>) >>),
         Lit(<<"o","k">>),
         Lit(<<"o","k","a","y">>),
         Lit(<<"a","l","r","i","g","h","t">>),
         Lit(<<"b","y","e">>),
         Lit(<<"g","o","o","d","b","y","e">>) >>)

\* GREETING_PAT without the trailing [\s!.]*
GreetingBare == Cat(<< GreetingWords, EndStr >>)

GREETING_PAT == Cat(<< GreetingWords, Star(Ch(WS \cup {"!", "."})), EndStr >>)

\* the backquote character (a TLA+ string cannot hold it)
Tick == "<backquote>"

\* the three backquotes of a markdown code fence
Fence == Lit(<<Tick, Tick, Tick>>)

\* the two alternatives of FENCE_RE, in order
FENCE_RE ==
  << Cat(<<Bol, Star(Sp), Fence, Opt(Lit(<<"s","q","l">>)), Star(Sp)>>),
     Cat(<<Star(Sp), Fence, Star(Sp), Eol>>) >>

\* the value None (an argument that is no text)
None == <<"<None>">>

\* lines 77-80
strip_sql_fences(s) == IF s = None THEN s ELSE Strip(RemoveAll(FENCE_RE, s, 0))

\* the retrieval verbs of the gentle retry
RetryWords ==
  { <<"s","h","o","w">>, <<"f","i","n","d">>, <<"l","i","s","t">>,
    <<"g","e","t">>, <<"r","e","t","r","i","e","v","e">> }

has_keywords(text, words) ==
  LET tl == Lower(text) IN \E w \in words : Contains(tl, w)

\* the guard pattern with one whitespace character around the equals sign
GuardReSpaced ==
  Cat(<<WordB, Lit(<<"c",".","l","a","t","e","s","t">>), Sp, Ch({"="}), Sp, Ch({"0"}),
        WordB>>)

\* \bc\.latest\s*=\s*0\b
GuardRe ==
  Cat(<<WordB, Lit(<<"c",".","l","a","t","e","s","t">>), Star(Sp), Ch({"="}),
        Star(Sp), Ch({"0"}), WordB>>)

\* \bwhere\b
WhereRe == Cat(<<WordB, Lit(<<"w","h","e","r","e">>), WordB>>)

\* \border\s+by\b|\boffset\b|\blimit\b
SplitRe ==
  Alt(<< Cat(<<WordB, Lit(<<"o","r","d","e","r">>), Plus(Sp), Lit(<<"b","y">>), WordB>>),
         Cat(<<WordB, Lit(<<"o","f","f","s","e","t">>), WordB>>),
         Cat(<<WordB, Lit(<<"l","i","m","i","t">>), WordB>>) >>)

GuardAnd   == <<" ","c",".","l","a","t","e","s","t"," ","="," ","0"," ","A","N","D">>
GuardWhere == <<" ","W","H","E","R","E"," ","c",".","l","a","t","e","s","t"," ","="," ","0">>

\* line 115 leaving the text as it is
WhereUnchanged(sql, m) == sql

\* lines 116-118 putting the clause at the end of the text
GuardAtEnd(sql, m) == RStrip(sql) \o GuardWhere

\* line 115: the guard after the first "where", the match m
GuardAfter(sql, m) == SubSeq(sql, 1, m.to) \o GuardAnd \o SubSeq(sql, m.to + 1, Len(sql))

\* lines 116-118: the guard before the first of ORDER BY, OFFSET, LIMIT, the
\* match m (parts[1:] joined is the text from the start of the match on)
GuardBefore(sql, m) ==
  RStrip(SubSeq(sql, 1, m.from)) \o GuardWhere \o <<" ">>
    \o SubSeq(sql, m.from + 1, Len(sql))

\* lines 110-119 with the test of line 116 made before that of line 114
InjectBeforeKeyword(sql, enforce) ==
  IF ~enforce THEN sql
  ELSE IF Search(GuardRe, sql) THEN sql
  ELSE IF Search(SplitRe, sql) THEN GuardBefore(sql, FirstMatch(SplitRe, sql, 0))
  ELSE IF Search(WhereRe, sql) THEN GuardAfter(sql, FirstMatch(WhereRe, sql, 0))
  ELSE RStrip(sql) \o GuardWhere

inject_latest_guard(sql, enforce) ==
  IF ~enforce THEN sql
  ELSE IF Search(GuardRe, sql) THEN sql
  ELSE IF Search(WhereRe, sql) THEN GuardAfter(sql, FirstMatch(WhereRe, sql, 0))
  ELSE IF Search(SplitRe, sql) THEN GuardBefore(sql, FirstMatch(SplitRe, sql, 0))
  ELSE RStrip(sql) \o GuardWhere

\* (c\.<field>\s*=\s*')
EqHead(field) ==
  Cat(<<Lit(<<"c",".">>), Lit(field), Star(Sp), Ch({"="}), Star(Sp), Ch({"'"})>>)

\* (c\.<field>\s*=\s*')([^']+)(')
EqRe(field) == Cat(<<EqHead(field), Plus(NotCh({"'"})), Ch({"'"})>>)

\* (c\.<field>\s+LIKE\s*'%)
LikeHead(field) ==
  Cat(<<Lit(<<"c",".">>), Lit(field), Plus(Sp), Lit(<<"l","i","k","e">>), Star(Sp),
        Ch({"'"}), Ch({"%"})>>)

\* (c\.<field>\s+LIKE\s*'%)([^']+)(%')
LikeRe(field) == Cat(<<LikeHead(field), Plus(NotCh({"'"})), Ch({"%"}), Ch({"'"})>>)

\* group 2 of the match m of Cat(head, [^']+, tail), tail of length n
Group2Of(head, n, sql, m) == SubSeq(sql, SetMax(Ends(head, sql, m.from)) + 1, m.to - n)

\* group 2 of the leftmost match of re
Group2(head, re, n, sql) == Group2Of(head, n, sql, FirstMatch(re, sql, 0))

extract_location_term(sql, field) ==
  IF Search(EqRe(field), sql)
    THEN Strip(Group2(EqHead(field), EqRe(field), 1, sql))
  ELSE IF Search(LikeRe(field), sql)
    THEN Strip(Group2(LikeHead(field), LikeRe(field), 2, sql))
  ELSE None

\* f"c.{new_field} LIKE '%{term}%'"
LikeClause(new_field, term) ==
  <<"c",".">> \o new_field \o <<" ","L","I","K","E"," ","'","%">> \o term \o <<"%","'">>

\* sql[:m.start()] + like_clause + sql[m.end():]
ReplaceMatch(sql, m, like_clause) ==
  SubSeq(sql, 1, m.from) \o like_clause \o SubSeq(sql, m.to + 1, Len(sql))

\* the leftmost predicate on old_field rewritten, whichever its form
ReplaceLeftmost(sql, old_field, new_field, term) ==
  IF Search(Alt(<<EqRe(old_field), LikeRe(old_field)>>), sql)
    THEN ReplaceMatch(sql, FirstMatchAlts(<<EqRe(old_field), LikeRe(old_field)>>, sql, 0),
                      LikeClause(new_field, term))
  ELSE sql

replace_location_field(sql, old_field, new_field, term) ==
  IF Search(EqRe(old_field), sql)
    THEN ReplaceMatch(sql, FirstMatch(EqRe(old_field), sql, 0), LikeClause(new_field, term))
  ELSE IF Search(LikeRe(old_field), sql)
    THEN ReplaceMatch(sql, FirstMatch(LikeRe(old_field), sql, 0), LikeClause(new_field, term))
  ELSE sql

\* re.search(rf"\bc\.{primary_field}\b", base_sql)
RefersTo(sql, field) ==
  Search(Cat(<<WordB, Lit(<<"c",".">>), Lit(field), WordB>>), sql)

(***************************************************************************)
(* Observations.  A JSON value is a tagged record; an observation is the   *)
(* payload of a tool call, either an object (enc "obj") or the text that   *)
(* encodes one (enc "str").  A text that is no JSON has the tag "garbage", *)
(* the empty text the tag "empty".                                         *)
(***************************************************************************)
Absent     == [t |-> "absent"]
JNum(n)    == [t |-> "num", n |-> n]
\* a JSON number with a fraction or an exponent, decoded to a float: i is
\* int() of it, exact says that the float equals i
JReal(i, exact) == [t |-> "real", i |-> i, exact |-> exact]
JDoc       == [t |-> "doc"]
JList(xs)  == [t |-> "list", items |-> xs]
JDict(r, c, e) == [t |-> "dict", results |-> r, count |-> c, error |-> e]
StrObs(v)  == [enc |-> "str", val |-> v]
ObjObs(v)  == [enc |-> "obj", val |-> v]
Garbage    == [t |-> "garbage"]

\* bool(observation)
Truthy(o) == ~(o.enc = "str" /\ o.val.t = "empty")

\* json.loads raises on a text that is no JSON
Decodes(o) == o.enc = "obj" \/ o.val.t \notin {"garbage", "empty"}

\* the value x == 0 of Python for a JSON value: a number that is zero, or
\* the boolean False (bool is a subclass of int, False == 0)
EqZero(v) ==
  \/ v.t = "num" /\ v.n = 0
  \/ v.t = "bool" /\ ~v.b
  \/ v.t = "real" /\ v.i = 0 /\ v.exact

obs_zero(o) ==
  IF ~Decodes(o) THEN FALSE
  ELSE LET obj == o.val IN
    IF obj.t # "dict" THEN FALSE
    ELSE IF obj.results.t = "list"
              /\ (\/ (Len(obj.results.items) = 1 /\ EqZero(obj.results.items[1]))
                  \/ Len(obj.results.items) = 0)
      THEN TRUE
    ELSE EqZero(obj.count)

\* Optional[int]: None is [some |-> FALSE]
NoCount    == [some |-> FALSE, n |-> 0]
SomeCount(n) == [some |-> TRUE, n |-> n]

\* isinstance(v, (int, float)): a number, or a boolean (bool is a subclass
\* of int)
IsIntOrFloat(v) == v.t \in {"num", "real", "bool"}

\* isinstance(v, int)
IsInt(v) == v.t \in {"num", "bool"}

\* int(v) for such a value: the float loses its fraction, True is 1 and
\* False is 0
IntOf(v) == IF v.t = "num" THEN v.n ELSE IF v.t = "real" THEN v.i ELSE IF v.b THEN 1 ELSE 0

obs_count(o) ==
  IF ~Decodes(o) THEN NoCount
  ELSE LET obj == o.val IN
    IF obj.t # "dict" THEN NoCount
    ELSE IF obj.results.t = "list"
      THEN IF Len(obj.results.items) = 1 /\ IsIntOrFloat(obj.results.items[1])
             THEN SomeCount(IntOf(obj.results.items[1]))
             ELSE SomeCount(Len(obj.results.items))
    ELSE IF IsInt(obj.count) THEN SomeCount(IntOf(obj.count))
    ELSE NoCount

(***************************************************************************)
(* The remote tools (server.py), as the client sees them: each returns the *)
(* JSON text of its result object, and reports a failure of the database   *)
(* as the JSON text of an error object.                                    *)
(***************************************************************************)
format_query_results(items) == JDict(JList(items), JNum(Len(items)), FALSE)

ErrorResult == JDict(Absent, Absent, TRUE)

(***************************************************************************)
(* Filter mappings.  A dict is a sequence of entries [k, v] in insertion   *)
(* order with distinct keys.  A key of a raw dict is [str, chars]: a text  *)
(* key, or (str = FALSE) a key that is no text.  Values are JSON values,   *)
(* a text value being [t |-> "str", s |-> chars].                          *)
(***************************************************************************)
JStr(cs)    == [t |-> "str", s |-> cs]
JBool(b)    == [t |-> "bool", b |-> b]
JNull       == [t |-> "null"]
JObj(d)     == [t |-> "obj", d |-> d]
TextKey(cs) == [str |-> TRUE, chars |-> cs]
NonTextKey  == [str |-> FALSE, chars |-> <<>>]
\* a str argument: the text of the JSON value v, or a text that is no JSON
JsonText(v) == [t |-> "text", json |-> v]

K_filters == <<"f","i","l","t","e","r","s">>
K_filter  == <<"f","i","l","t","e","r">>
K_latest  == <<"l","a","t","e","s","t">>

HasKey(d, k) == \E i \in 1..Len(d) : d[i].k = k
Get(d, k)    == d[CHOOSE i \in 1..Len(d) : d[i].k = k].v

\* d[k] = v
Put(d, k, v) ==
  IF HasKey(d, k)
    THEN [i \in 1..Len(d) |-> IF d[i].k = k THEN [k |-> k, v |-> v] ELSE d[i]]
    ELSE Append(d, [k |-> k, v |-> v])

RECURSIVE LStripCh(_, _), RStripCh(_, _)
LStripCh(s, S) == IF s # <<>> /\ Head(s) \in S THEN LStripCh(Tail(s), S) ELSE s
RStripCh(s, S) ==
  IF s # <<>> /\ s[Len(s)] \in S THEN RStripCh(SubSeq(s, 1, Len(s) - 1), S) ELSE s

\* str.strip(chars)
StripCh(s, S) == RStripCh(LStripCh(s, S), S)

StartsWith(s, pre) == Len(s) >= Len(pre) /\ SubSeq(s, 1, Len(pre)) = pre

\* the cleaned form of one key
CleanKey(k) ==
  LET ck == StripCh(StripCh(Strip(k), {"\""}), {"'"})
  IN IF StartsWith(ck, <<"c",".">>) THEN SubSeq(ck, 3, Len(ck)) ELSE ck

RECURSIVE CleanFrom(_, _, _)
CleanFrom(d, i, out) ==
  IF i > Len(d) THEN out
  ELSE CleanFrom(d, i + 1, Put(out, CleanKey(d[i].k.chars), d[i].v))

\* clean_filter_keys without the test of line 124
KeysUnchecked(d) == FALSE

\* clean_filter_keys raises ValueError("Filter keys must be strings") when a
\* key is no text: FiltersKeyError tells whether it does, clean_filter_keys
\* is its result when it does not
FiltersKeyError(d) == \E i \in 1..Len(d) : ~d[i].k.str

clean_filter_keys(d) == CleanFrom(d, 1, <<>>)

OperatorTokens ==
  { <<" ","l","i","k","e">>, <<">">>, <<"<">>, <<">","=">>, <<"<","=">>, <<"!","=">>,
    <<" ","b","e","t","w","e","e","n"," ">>, <<" ","i","n"," ">> }

has_operatorish_key(key) ==
  LET l == Lower(key)
  IN Contains(l, <<" ">>) \/ \E tok \in OperatorTokens : Contains(l, tok)

Digit(n) == CASE n = 0 -> "0" [] n = 1 -> "1" [] n = 2 -> "2" [] n = 3 -> "3"
              [] n = 4 -> "4" [] n = 5 -> "5" [] n = 6 -> "6" [] n = 7 -> "7"
              [] n = 8 -> "8" [] n = 9 -> "9"

\* str(n) for an integer
RECURSIVE IntToStr(_)
IntToStr(n) ==
  IF n < 0 THEN <<"-">> \o IntToStr(0 - n)
  ELSE IF n < 10 THEN <<Digit(n)>>
  ELSE IntToStr(n \div 10) \o <<Digit(n % 10)>>

\* v.replace("'", "''")
RECURSIVE DoubleQuotes(_)
DoubleQuotes(s) ==
  IF s = <<>> THEN <<>>
  ELSE (IF Head(s) = "'" THEN <<"'", "'">> ELSE <<Head(s)>>) \o DoubleQuotes(Tail(s))

\* json.dumps of a scalar
JsonDumps(v) ==
  CASE v.t = "num"  -> IntToStr(v.n)
    [] v.t = "bool" -> IF v.b THEN <<"t","r","u","e">> ELSE <<"f","a","l","s","e">>
    [] v.t = "null" -> <<"n","u","l","l">>

GuardClause == <<"c",".","l","a","t","e","s","t"," ","="," ","0">>
AndSep      == <<" ","A","N","D"," ">>
TrueClause  == <<"1","=","1">>
CountHead   == <<"S","E","L","E","C","T"," ","V","A","L","U","E"," ","C","O","U","N","T",
                 "(","1",")"," ","F","R","O","M"," ","c"," ","W","H","E","R","E"," ">>

EqClause(k, v) ==
  IF v.t = "str"
    THEN <<"c",".">> \o k \o <<" ","="," ","'">> \o DoubleQuotes(v.s) \o <<"'">>
    ELSE <<"c",".">> \o k \o <<" ","="," ">> \o JsonDumps(v)

RECURSIVE ClausesFrom(_, _)
ClausesFrom(filters, i) ==
  IF i > Len(filters) THEN <<>>
  ELSE (IF filters[i].k = K_latest THEN <<>>
        ELSE <<EqClause(filters[i].k, filters[i].v)>>) \o ClausesFrom(filters, i + 1)

\* " AND ".join(clauses)
RECURSIVE JoinAnd(_)
JoinAnd(cl) ==
  IF cl = <<>> THEN <<>>
  ELSE IF Len(cl) = 1 THEN cl[1]
  ELSE cl[1] \o AndSep \o JoinAnd(Tail(cl))

to_sql_count_from_eq_filters(filters, enforce_latest) ==
  LET clauses == (IF enforce_latest THEN <<GuardClause>> ELSE <<>>)
                   \o ClausesFrom(filters, 1)
  IN CountHead \o (IF clauses # <<>> THEN JoinAnd(clauses) ELSE TrueClause)

(***************************************************************************)
(* The count wrapper: the part of _wrap_count_documents._run before its    *)
(* first remote call.  raw is the gathered argument (the one positional    *)
(* argument, or the filters / filter keyword, or the keywords as a dict).  *)
(***************************************************************************)
EmptyObj == JObj(<<>>)

\* the coercion of raw to a dict (lines 276-288)
CoerceRaw(raw) ==
  LET r1 == IF raw.t = "text"
              THEN (IF raw.json.t = "garbage" THEN EmptyObj ELSE raw.json)
              ELSE raw
  IN IF r1.t = "obj"
       THEN IF HasKey(r1.d, TextKey(K_filters)) /\ Get(r1.d, TextKey(K_filters)).t = "obj"
              THEN Get(r1.d, TextKey(K_filters))
            ELSE IF HasKey(r1.d, TextKey(K_filter)) /\ Get(r1.d, TextKey(K_filter)).t = "obj"
              THEN Get(r1.d, TextKey(K_filter))
            ELSE r1
       ELSE EmptyObj

\* the check of lines 295-296 made on the first key alone
FirstKeyOperator(clean) == clean # <<>> /\ has_operatorish_key(clean[1].k)

\* lines 295-296: some cleaned key is operator-bearing
HasOperatorKey(clean) == \E i \in 1..Len(clean) : has_operatorish_key(clean[i].k)

\* what the wrapper does first: raise, or call the run-query tool with sql,
\* or call the count tool with filters
CountPlan(raw, cf, has_query) ==
  LET r == CoerceRaw(raw) IN
  IF r.t # "obj"
    THEN [act |-> "raise", err |-> "expects a filters dict or JSON string",
          sql |-> <<>>, filters |-> <<>>]
  ELSE IF FiltersKeyError(r.d)
    THEN [act |-> "raise", err |-> "Filter keys must be strings",
          sql |-> <<>>, filters |-> <<>>]
  ELSE LET clean == clean_filter_keys(r.d) IN
    IF HasOperatorKey(clean)
      THEN IF cf.enable_sql_count_fallback /\ has_query
             THEN [act |-> "query", err |-> "",
                   sql |-> to_sql_count_from_eq_filters(
                             IF cf.enforce_latest_guard
                               THEN <<[k |-> K_latest, v |-> JNum(0)]>> ELSE <<>>,
                             cf.enforce_latest_guard),
                   filters |-> <<>>]
             ELSE [act |-> "raise", err |-> "operators not allowed",
                   sql |-> <<>>, filters |-> <<>>]
      ELSE [act |-> "count", err |-> "", sql |-> <<>>,
            filters |-> IF cf.enforce_latest_guard /\ ~HasKey(clean, K_latest)
                          THEN Put(clean, K_latest, JNum(0)) ELSE clean]

\* what the wrapper does when the count tool call raised (lines 310-317)
CountFailedPlan(filters, cf, has_query) ==
  IF cf.enable_sql_count_fallback /\ has_query
    THEN [act |-> "query", err |-> "",
          sql |-> to_sql_count_from_eq_filters(filters, cf.enforce_latest_guard)]
    ELSE [act |-> "raise", err |-> "count_documents failed", sql |-> <<>>]

\* the run-query wrapper before its remote call (lines 238-249)
QueryPlan(query, cf) ==
  IF query = None \/ Strip(query) = <<>>
    THEN [act |-> "raise", err |-> "expects a non-empty SQL string", sql |-> <<>>]
    ELSE [act |-> "query", err |-> "",
          sql |-> inject_latest_guard(strip_sql_fences(query), cf.enforce_latest_guard)]


(***************************************************************************)
(* parse_temporal_window (client.py, lines 82-102): dates, their ISO text, *)
(* and the window of a phrase                                              *)
(***************************************************************************)
Date(y, m, d) == [y |-> y, m |-> m, d |-> d]

IsLeap(y) == (y % 4 = 0 /\ y % 100 # 0) \/ y % 400 = 0

DaysIn(y, m) ==
  IF m = 2 THEN (IF IsLeap(y) THEN 29 ELSE 28)
  ELSE IF m \in {4, 6, 9, 11} THEN 30 ELSE 31

DigitVal(c) == CHOOSE n \in 0..9 : Digit(n) = c

RECURSIVE ParseInt(_)
ParseInt(s) == IF s = <<>> THEN 0 ELSE 10 * ParseInt(SubSeq(s, 1, Len(s) - 1)) + DigitVal(s[Len(s)])

\* datetime.fromisoformat of a YYYY-MM-DD text
fromisoformat(s) ==
  Date(ParseInt(SubSeq(s, 1, 4)), ParseInt(SubSeq(s, 6, 7)), ParseInt(SubSeq(s, 9, 10)))

\* an integer in at least w digits, zero-padded
RECURSIVE Padded(_, _)
Padded(n, w) == IF Len(IntToStr(n)) >= w THEN IntToStr(n) ELSE <<"0">> \o Padded(n, w - 1)

\* strftime("%Y-%m-%d")
strftime(dt) == Padded(dt.y, 4) \o <<"-">> \o Padded(dt.m, 2) \o <<"-">> \o Padded(dt.d, 2)

\* dt + timedelta(days=1) and dt - timedelta(days=1)
NextDay(dt) ==
  IF dt.d < DaysIn(dt.y, dt.m) THEN Date(dt.y, dt.m, dt.d + 1)
  ELSE IF dt.m < 12 THEN Date(dt.y, dt.m + 1, 1)
  ELSE Date(dt.y + 1, 1, 1)

PrevDay(dt) ==
  IF dt.d > 1 THEN Date(dt.y, dt.m, dt.d - 1)
  ELSE IF dt.m > 1 THEN Date(dt.y, dt.m - 1, DaysIn(dt.y, dt.m - 1))
  ELSE Date(dt.y - 1, 12, 31)

\* dt + timedelta(days=n)
RECURSIVE PlusDays(_, _)
PlusDays(dt, n) ==
  IF n = 0 THEN dt
  ELSE IF n > 0 THEN PlusDays(NextDay(dt), n - 1)
  ELSE PlusDays(PrevDay(dt), n + 1)

\* the date with its day kept
SameDay(dt) == dt

\* dt.replace(day=1)
FirstOfMonth(dt) == Date(dt.y, dt.m, 1)

\* Optional[Tuple[str, str]]
NoWindow == [some |-> FALSE, start |-> <<>>, end |-> <<>>]
Window(start, end) == [some |-> TRUE, start |-> strftime(start), end |-> strftime(end)]

P_ThisMonth == <<"t","h","i","s"," ","m","o","n","t","h">>
P_LastMonth == <<"l","a","s","t"," ","m","o","n","t","h">>
P_LastYear  == <<"l","a","s","t"," ","y","e","a","r">>
P_Past30    == <<"p","a","s","t"," ","3","0"," ","d","a","y","s">>
P_Last30    == <<"l","a","s","t"," ","3","0"," ","d","a","y","s">>

\* lines 86-88
ThisMonthWindow(today) ==
  Window(FirstOfMonth(today),
         FirstOfMonth(PlusDays(Date(today.y, today.m, 28), 4)))

\* lines 90-93
LastMonthWindow(today) ==
  Window(FirstOfMonth(PrevDay(FirstOfMonth(today))), FirstOfMonth(today))

\* lines 95-97
LastYearWindow(today) == Window(Date(today.y - 1, 1, 1), Date(today.y, 1, 1))

\* lines 99-101
Past30Window(today) == Window(PlusDays(today, 0 - 30), PlusDays(today, 1))

parse_temporal_window(text, today_iso) ==
  LET today == fromisoformat(today_iso)
      t     == Lower(text)
  IN  IF Contains(t, P_ThisMonth) THEN ThisMonthWindow(today)
      ELSE IF Contains(t, P_LastMonth) THEN LastMonthWindow(today)
      ELSE IF Contains(t, P_LastYear) THEN LastYearWindow(today)
      ELSE IF Contains(t, P_Past30) \/ Contains(t, P_Last30) THEN Past30Window(today)
      ELSE NoWindow
(***************************************************************************)
(* Bounds and input sets                                                   *)
(***************************************************************************)
\* longest fallback field list
MaxFields == 3
\* largest max_iterations of the settings
MaxIterations == 2
\* most tool calls of the oracle in one request (both invocations together)
MaxToolCalls == 2

F_City     == <<"C","i","t","y">>
F_Region   == <<"R","e","g","i","o","n">>
F_Area     == <<"A","r","e","a">>
F_District == <<"D","i","s","t","r","i","c","t">>

\* the default of Settings.location_fallback_fields
DefaultFields == <<F_City, F_Region, F_Area, F_District>>

\* the lists of the settings: the default list cut to 1..MaxFields entries,
\* and a list with another primary field
FieldLists ==
  { SubSeq(DefaultFields, 1, n) :
      n \in 1..(IF MaxFields < Len(DefaultFields) THEN MaxFields ELSE Len(DefaultFields)) }
    \cup { <<F_Region, F_City>> }

AllFields     == { DefaultFields[i] : i \in 1..Len(DefaultFields) }
PrimaryFields == { fs[1] : fs \in FieldLists }

Q_Eq ==
  <<"S","E","L","E","C","T"," ","*"," ","F","R","O","M"," ","c"," ","W","H","E","R","E"," ",
    "c",".","C","i","t","y"," ","="," ","'","M","i","a","m","i","'">>
Q_CountLikeFenced ==
  <<Tick,Tick,Tick,"s","q","l",NL,
    "S","E","L","E","C","T"," ","V","A","L","U","E"," ","C","O","U","N","T","(","1",")"," ",
    "F","R","O","M"," ","c"," ","W","H","E","R","E"," ",
    "c",".","c","i","t","y"," ","L","I","K","E"," ","'","%","M","i","a","%","'",NL,
    Tick,Tick,Tick>>
Q_BlankTerm ==
  <<"S","E","L","E","C","T"," ","*"," ","F","R","O","M"," ","c"," ","W","H","E","R","E"," ",
    "c",".","C","i","t","y"," ","="," ","'"," ","'">>
Q_Blank == <<" ">>
\* a contains predicate on the primary field before an equality predicate
Q_LikeThenEq ==
  <<"S","E","L","E","C","T"," ","*"," ","F","R","O","M"," ","c"," ","W","H","E","R","E"," ",
    "c",".","C","i","t","y"," ","L","I","K","E"," ","'","%","M","i","a","%","'"," ","O","R",
    " ","c",".","C","i","t","y"," ","="," ","'","M","i","a","m","i","'">>

\* the query texts the oracle gives the run-query tool
OracleQueries == { Q_Eq, Q_CountLikeFenced, Q_BlankTerm, Q_Blank, Q_LikeThenEq }

\* the final texts of the oracle (None: no "output" in its result)
OracleOutputs == { None, <<"x"," ">>, <<"N","o"," ","r","e","s","u","l","t","s",".">> }

U_Thanks == <<"t","h","a","n","k","s","!">>
U_Ok     == <<" ","O","K","."," ">>
U_Show   == <<"S","h","o","w"," ","a","l","l">>
U_Count  == <<"h","i",","," ","c","o","u","n","t">>

UserInputs == { U_Thanks, U_Ok, U_Show, U_Count }

\* the canned answer of line 467
CannedText ==
  <<"H","i","!"," ","I"," ","c","a","n"," ","h","e","l","p"," ","y","o","u"," ","q","u",
    "e","r","y"," ","a","n","d"," ","a","n","a","l","y","z","e"," ","d","a","t","a"," ",
    "f","r","o","m"," ","y","o","u","r"," ","C","o","s","m","o","s"," ","D","B","."," ",
    "W","h","a","t"," ","w","o","u","l","d"," ","y","o","u"," ","l","i","k","e"," ","t",
    "o"," ","e","x","p","l","o","r","e","?">>

\* f"Found {count} records using {fallback_field} LIKE '%{term}%'."
FoundText(count, fallback_field, term) ==
  <<"F","o","u","n","d"," ">> \o IntToStr(count)
    \o <<" ","r","e","c","o","r","d","s"," ","u","s","i","n","g"," ">> \o fallback_field
    \o <<" ","L","I","K","E"," ","'","%">> \o term \o <<"%","'",".">>

Configs ==
  [ location_fallback_fields : FieldLists,
    enforce_latest_guard : BOOLEAN,
    enable_sql_count_fallback : {TRUE},
    max_iterations : {1, MaxIterations} ]

(***************************************************************************)
(* The remote tools (server.py), as the client sees them: each returns the *)
(* JSON text of its result object, and reports a failure of the database   *)
(* as the JSON text of an error object.  A call can also raise (transport  *)
(* error, or the service reporting the call itself as failed).             *)
(***************************************************************************)
IsValueCount(sql) ==
  Contains(Lower(sql), <<"v","a","l","u","e"," ","c","o","u","n","t","(">>)

\* the rows the database can answer a query with: the one number of a
\* VALUE COUNT query, the documents of a listing
QueryRows(sql) ==
  IF IsValueCount(sql) THEN { <<JNum(0)>>, <<JNum(3)>> }
  ELSE { <<>>, <<JDoc, JDoc>> }

\* what query_cosmos of the server returns (server.py lines 239-252)
ServerQueryReturns(sql) ==
  { StrObs(format_query_results(items)) : items \in QueryRows(sql) }
    \cup { StrObs(ErrorResult) }

\* what count_documents of the server returns (server.py lines 439-477)
ServerCountReturns ==
  { StrObs(JDict(Absent, JNum(n), FALSE)) : n \in {0, 2} } \cup { StrObs(ErrorResult) }

\* what describe_container of the server returns
ServerSchemaReturns == { StrObs(JDict(Absent, Absent, FALSE)), StrObs(ErrorResult) }

RemoteRaise == [enc |-> "raise", val |-> Garbage]
NoObs       == [enc |-> "none", val |-> Garbage]

\* the observation of a tool the executor does not know
InvalidToolObs == StrObs(Garbage)

QueryCall(sql, by) ==
  [tool |-> "query_cosmos", sql |-> sql, filters |-> <<>>, by |-> by]
CountCall(filters) ==
  [tool |-> "count_documents", sql |-> <<>>, filters |-> filters, by |-> "wrapper"]
SchemaCall ==
  [tool |-> "describe_container", sql |-> <<>>, filters |-> <<>>, by |-> "wrapper"]

Outcome(calls, obs)  == [calls |-> calls, raised |-> FALSE, err |-> "", obs |-> obs]
Failure(calls, err)  == [calls |-> calls, raised |-> TRUE, err |-> err, obs |-> NoObs]

QueryReplies(sql) == ServerQueryReturns(sql) \cup {RemoteRaise}

\* every way one run of the run-query wrapper can go (lines 238-254), p being
\* what it does before its remote call and replies the answers to that call
QueryOutcomes(p, replies) ==
  IF p.act = "raise" THEN { Failure(<<>>, p.err) }
  ELSE { IF r = RemoteRaise
           THEN Failure(<<QueryCall(p.sql, "wrapper")>>, "query_cosmos failed")
           ELSE Outcome(<<QueryCall(p.sql, "wrapper")>>, r) : r \in replies }

\* every way one run of the describe_container wrapper can go (lines 327-332)
SchemaOutcomes ==
  { Outcome(<<SchemaCall>>, r) : r \in ServerSchemaReturns }
    \cup { Failure(<<SchemaCall>>, "describe_container failed") }

(***************************************************************************)
(* The text functions of client.py over the inputs of the model.  They are *)
(* tabulated, and a request looks its texts up in the tables.              *)
(***************************************************************************)
QuerySeq == <<Q_Eq, Q_CountLikeFenced, Q_BlankTerm, Q_Blank, Q_LikeThenEq>>
InputSeq == <<U_Thanks, U_Ok, U_Show, U_Count>>

QueryNo(query)      == CHOOSE i \in 1..Len(QuerySeq) : QuerySeq[i] = query
InputNo(user_input) == CHOOSE i \in 1..Len(InputSeq) : InputSeq[i] = user_input
FieldNo(field)      == CHOOSE i \in 1..Len(DefaultFields) : DefaultFields[i] = field

GuardConfig(enforce) == [enforce_latest_guard |-> enforce]

\* lines 493-504 for the query text of the last run-query step: the text the
\* attempts start from and the search term (None: nothing to search for)
\* "if term": an empty term is no term
TermOrNone(term) == IF term = <<>> THEN None ELSE term

\* lines 499-504, base_sql being the text of line 498
FallbackBaseOf(last_q, base_sql, refers, primary_field) ==
  [ last_q |-> last_q, base_sql |-> base_sql, refers |-> refers,
    term |-> TermOrNone(IF refers THEN extract_location_term(base_sql, primary_field)
                        ELSE None) ]

FallbackBaseSql(last_q, base_sql, primary_field) ==
  FallbackBaseOf(last_q, base_sql, RefersTo(base_sql, primary_field), primary_field)

FallbackBase(tool_input, primary_field) ==
  FallbackBaseSql(Strip(tool_input), strip_sql_fences(Strip(tool_input)), primary_field)

\* what lines 497-504 test of b
FallbackTests(b) == [ blank |-> b.last_q = <<>>, refers |-> b.refers, term |-> b.term ]

FallbackStart(tool_input, primary_field) ==
  FallbackTests(FallbackBase(tool_input, primary_field))

\* the plan p of the run-query wrapper and the answers to its remote call
PlanRun(p) == [ plan |-> p, replies |-> IF p.act = "raise" THEN {} ELSE QueryReplies(p.sql) ]

\* the run-query wrapper before its remote call, and the answers to that call
QueryRun(query, cf) == PlanRun(QueryPlan(query, cf))

\* line 507 without line 508
FallbackSqlAsReplaced(base_sql, primary_field, fallback_field, term, enforce) ==
  replace_location_field(base_sql, primary_field, fallback_field, term)

\* lines 507-508: the query of one attempt
FallbackSql(base_sql, primary_field, fallback_field, term, enforce) ==
  inject_latest_guard(
    replace_location_field(base_sql, primary_field, fallback_field, term), enforce)

\* the query of the attempt with fallback_field after the step with
\* tool_input, and what the remote tool can answer
SqlRun(sql) == [sql |-> sql, replies |-> QueryReplies(sql)]

AttemptFrom(b, primary_field, fallback_field, enforce) ==
  IF b.term = None THEN [sql |-> <<>>, replies |-> {}]
  ELSE SqlRun(FallbackSql(b.base_sql, primary_field, fallback_field, b.term, enforce))

FallbackAttempt(tool_input, primary_field, fallback_field, enforce) ==
  AttemptFrom(FallbackBase(tool_input, primary_field), primary_field, fallback_field,
              enforce)

\* Each table is an explicit function of its keys (the @@ makes it one), so
\* that its texts are computed once.
GreetingTable ==
  <<>> @@ [ i \in 1..Len(InputSeq) |-> Matches(GREETING_PAT, Strip(InputSeq[i])) ]
KeywordTable ==
  <<>> @@ [ i \in 1..Len(InputSeq) |-> has_keywords(InputSeq[i], RetryWords) ]
ShortTable ==
  <<>> @@ [ o \in OracleOutputs |-> Len(Strip(IF o = None THEN <<>> ELSE o)) < 2 ]
RunTable ==
  <<>> @@ [ k \in (1..Len(QuerySeq)) \X BOOLEAN |->
              QueryRun(QuerySeq[k[1]], GuardConfig(k[2])) ]
BaseTable ==
  <<>> @@ [ k \in (1..Len(QuerySeq)) \X { FieldNo(f) : f \in PrimaryFields } |->
              FallbackStart(QuerySeq[k[1]], DefaultFields[k[2]]) ]
AttemptTable ==
  <<>> @@ [ k \in (1..Len(QuerySeq)) \X { FieldNo(f) : f \in PrimaryFields }
                    \X (1..Len(DefaultFields)) \X BOOLEAN |->
              FallbackAttempt(QuerySeq[k[1]], DefaultFields[k[2]], DefaultFields[k[3]],
                              k[4]) ]

(***************************************************************************)
(* The client: connect(), the settings panel and ainvoke()                 *)
(***************************************************************************)
VARIABLES
  cfg,              \* self.cfg
  executor,         \* self.agent_executor (not connected before connect())
  orig_query,       \* self._orig_query is set
  pc,               \* where ainvoke() is
  user_query,       \* the argument of ainvoke()
  agent_steps,      \* intermediate steps of the running oracle invocation
  steps,            \* the local steps of ainvoke()
  output_text,      \* the local output_text of ainvoke()
  fallback_applied, \* the local fallback_applied of ainvoke()
  fb,               \* the fallback loop: the attempt whose reply is awaited
  remote_calls,     \* history: the calls made to the remote tools
  oracle_calls,     \* history: the invocations of the oracle in this request
  primary,          \* history: the result of the first oracle invocation
  retried,          \* history: the result of the second oracle invocation
  ret,              \* what ainvoke() returned or raised
  cw,               \* one run of the count wrapper
  qw,               \* one run of the run-query wrapper on its own
  app               \* one application of a helper function on its own

vars == << cfg, executor, orig_query, pc, user_query, agent_steps, steps, output_text,
           fallback_applied, fb, remote_calls, oracle_calls, primary, retried, ret,
           cw, qw, app >>

\* the lookups of a request
is_greeting(user_input)       == GreetingTable[InputNo(user_input)]
has_retry_keyword(user_input) == KeywordTable[InputNo(user_input)]
is_short(text)                == IF text \in DOMAIN ShortTable THEN ShortTable[text]
                                 ELSE Len(Strip(text)) < 2
query_cosmos_run(query, cf)   ==
  QueryOutcomes(RunTable[<<QueryNo(query), cf.enforce_latest_guard>>].plan,
                RunTable[<<QueryNo(query), cf.enforce_latest_guard>>].replies)
fallback_base(tool_input, primary_field) ==
  BaseTable[<<QueryNo(tool_input), FieldNo(primary_field)>>]
fallback_attempt(tool_input, primary_field, fallback_field, enforce) ==
  AttemptTable[<<QueryNo(tool_input), FieldNo(primary_field), FieldNo(fallback_field),
                   enforce>>]

OracleStep(tool, tool_input, obs, inv) ==
  [kind |-> "oracle", tool |-> tool, input |-> tool_input, obs |-> obs, inv |-> inv]
\* (f"client_fallback_{fallback_field}", {"query": ..., "observation": ...})
FallbackStep(fallback_field, sql, obs) ==
  [kind |-> "fallback", tool |-> fallback_field, input |-> sql, obs |-> obs, inv |-> 0]
\* ("client_fallback_error", str(e))
ErrorStep ==
  [kind |-> "error", tool |-> <<>>, input |-> <<>>, obs |-> NoObs, inv |-> 0]

NotConnected == [connected |-> FALSE, max_iterations |-> 0]
NoFb      == [idx |-> 0, input |-> <<>>, sql |-> <<>>, term |-> None]
NoRet     == [kind |-> "none", text |-> <<>>, steps |-> <<>>, elapsed |-> "", err |-> ""]
NoResult  == [done |-> FALSE, output |-> None, steps |-> <<>>]
NoCw      == [stage |-> "idle", raw |-> JNull, calls |-> <<>>, err |-> "", obs |-> NoObs,
              count_reply |-> NoObs]
NoQw      == [stage |-> "idle", args |-> <<>>, calls |-> <<>>, err |-> "", obs |-> NoObs]
NoApp     == [fn |-> "none", x |-> <<>>, y |-> <<>>, yy |-> <<>>, zero |-> FALSE, n |-> 0,
              counted |-> FALSE, count |-> NoCount, win |-> NoWindow]

Returned(text, stps, elapsed) ==
  [kind |-> "returned", text |-> text, steps |-> stps, elapsed |-> elapsed, err |-> ""]
Raised(err) ==
  [kind |-> "raised", text |-> <<>>, steps |-> <<>>, elapsed |-> "", err |-> err]

\* round(time.time() - start, 2)
Measured == "measured"

\* what the oracle can ask for in one step
OracleActions ==
  { [tool |-> "query_cosmos", input |-> q] : q \in OracleQueries }
    \cup { [tool |-> "describe_container", input |-> <<>>] }

\* every way the tool of one step of the oracle can go
ToolOutcomes(a, cf, has_query) ==
  IF a.tool = "query_cosmos"
    THEN IF has_query THEN query_cosmos_run(a.input, cf)
         ELSE { Outcome(<<>>, InvalidToolObs) }
    ELSE SchemaOutcomes

\* the first run-query step (0: none)
FirstQueryStep(stps) ==
  LET qs == { i \in 1..Len(stps) : stps[i].kind = "oracle" /\ stps[i].tool = "query_cosmos" }
  IN IF qs = {} THEN 0 ELSE SetMin(qs)

\* lines 488-495: the last run-query step (0: none)
LastQueryStep(stps) ==
  LET qs == { i \in 1..Len(stps) : stps[i].kind = "oracle" /\ stps[i].tool = "query_cosmos" }
  IN IF qs = {} THEN 0 ELSE SetMax(qs)

\* lines 486-504: whether the attempts start, and from which step
FallbackPlan(stps, fields) ==
  LET i == LastQueryStep(stps) IN
  IF Len(fields) > 1 /\ i > 0
     /\ ~fallback_base(stps[i].input, fields[1]).blank
     /\ Truthy(stps[i].obs) /\ obs_zero(stps[i].obs)
     /\ fallback_base(stps[i].input, fields[1]).refers
     /\ fallback_base(stps[i].input, fields[1]).term # None
    THEN [go |-> TRUE, input |-> stps[i].input,
          term |-> fallback_base(stps[i].input, fields[1]).term]
    ELSE [go |-> FALSE, input |-> <<>>, term |-> None]

\* an attempt that stays on the first candidate
AttemptAgain(tool_input, term, idx, cf) ==
  [idx |-> 2, input |-> tool_input, term |-> term,
   sql |-> fallback_attempt(tool_input, cf.location_fallback_fields[1],
                            cf.location_fallback_fields[2], cf.enforce_latest_guard).sql]

\* the attempt with the field at position idx of the list
Attempt(tool_input, term, idx, cf) ==
  [idx |-> idx, input |-> tool_input, term |-> term,
   sql |-> fallback_attempt(tool_input, cf.location_fallback_fields[1],
                            cf.location_fallback_fields[idx], cf.enforce_latest_guard).sql]

\* line 514: isinstance(count, int) with any count
AnyCount(count) == count.some

\* line 514: isinstance(count, int) and count > 0
PositiveCount(count) == count.some /\ count.n > 0

\* line 526 replacing the trace instead of extending it
ReplaceSteps(stps, more) == more

\* line 526: steps.extend(...)
ExtendSteps(stps, more) == stps \o more

\* line 522 without the test of the retrieval verbs
RetryWantedAnyInput(applied, uq, text) ==
  (~applied) /\ is_short(text)

\* line 522
RetryWanted(applied, uq, text) ==
  (~applied) /\ has_retry_keyword(uq) /\ is_short(text)

ToolCallsSoFar == (IF primary.done THEN Len(primary.steps) ELSE 0) + Len(agent_steps)

\* lines 521-529 with the local values stps, text, applied
AfterFallback(stps, text, applied) ==
  IF RetryWanted(applied, user_query, text)
    THEN /\ pc' = "retry"
         /\ agent_steps' = <<>>
         /\ oracle_calls' = oracle_calls + 1
         /\ ret' = ret
    ELSE /\ pc' = "returned"
         /\ agent_steps' = <<>>
         /\ oracle_calls' = oracle_calls
         /\ ret' = Returned(text, stps, Measured)

Init ==
  /\ cfg \in Configs
  /\ executor = NotConnected
  /\ orig_query = FALSE
  /\ pc = "idle"
  /\ user_query = <<>>
  /\ agent_steps = <<>>
  /\ steps = <<>>
  /\ output_text = <<>>
  /\ fallback_applied = FALSE
  /\ fb = NoFb
  /\ remote_calls = <<>>
  /\ oracle_calls = 0
  /\ primary = NoResult
  /\ retried = NoResult
  /\ ret = NoRet
  /\ cw = NoCw
  /\ qw = NoQw
  /\ app = NoApp

\* connect(), lines 342-408, with the settings configured
Connect ==
  /\ pc = "idle"
  /\ ~executor.connected
  /\ \E has_query \in BOOLEAN : orig_query' = has_query
  /\ executor' = [connected |-> TRUE, max_iterations |-> cfg.max_iterations]
  /\ UNCHANGED << cfg, pc, user_query, agent_steps, steps, output_text, fallback_applied,
                  fb, remote_calls, oracle_calls, primary, retried, ret, cw, qw, app >>

\* the Apply Settings button, streamlit_app.py lines 265-273
ApplySettings ==
  /\ pc = "idle"
  /\ executor.connected
  /\ \E c \in Configs :
       /\ c # cfg
       /\ cfg' = [cfg EXCEPT !.max_iterations = c.max_iterations,
                             !.enforce_latest_guard = c.enforce_latest_guard,
                             !.location_fallback_fields = c.location_fallback_fields]
  /\ UNCHANGED << executor, orig_query, pc, user_query, agent_steps, steps, output_text,
                  fallback_applied, fb, remote_calls, oracle_calls, primary, retried,
                  ret, cw, qw, app >>

\* ainvoke(), lines 461-480: up to the first invocation of the oracle
Ask ==
  /\ pc = "idle"
  /\ \E q \in UserInputs :
       /\ user_query' = q
       /\ IF ~executor.connected
            THEN /\ pc' = "raised"
                 /\ ret' = Raised("Client not connected")
                 /\ oracle_calls' = oracle_calls
          ELSE IF is_greeting(q)
            THEN /\ pc' = "returned"
                 /\ ret' = Returned(CannedText, <<>>, "0.0")
                 /\ oracle_calls' = oracle_calls
          ELSE /\ pc' = "primary"
               /\ ret' = ret
               /\ oracle_calls' = oracle_calls + 1
  /\ UNCHANGED << cfg, executor, orig_query, agent_steps, steps, output_text,
                  fallback_applied, fb, remote_calls, primary, retried, cw, qw, app >>

\* the oracle runs a tool and the tool returns
OracleToolCall ==
  /\ pc \in {"primary", "retry"}
  /\ Len(agent_steps) < executor.max_iterations
  /\ ToolCallsSoFar < MaxToolCalls
  /\ \E a \in OracleActions :
       \E o \in ToolOutcomes(a, cfg, orig_query) :
         /\ ~o.raised
         /\ agent_steps' = Append(agent_steps,
                                  OracleStep(a.tool, a.input, o.obs,
                                             IF pc = "primary" THEN 1 ELSE 2))
         /\ remote_calls' = remote_calls \o o.calls
  /\ UNCHANGED << cfg, executor, orig_query, pc, user_query, steps, output_text,
                  fallback_applied, fb, oracle_calls, primary, retried, ret, cw, qw, app >>

\* the oracle runs a tool and the tool raises, or the oracle itself fails:
\* neither call of agent_executor.ainvoke (lines 480, 524) is inside a try
OracleRaises ==
  /\ pc \in {"primary", "retry"}
  /\ \/ /\ Len(agent_steps) < executor.max_iterations
        /\ ToolCallsSoFar < MaxToolCalls
        /\ \E a \in OracleActions :
             \E o \in ToolOutcomes(a, cfg, orig_query) :
               /\ o.raised
               /\ remote_calls' = remote_calls \o o.calls
               /\ ret' = Raised(o.err)
     \/ /\ remote_calls' = remote_calls
        /\ ret' = Raised("oracle failed")
  /\ pc' = "raised"
  /\ UNCHANGED << cfg, executor, orig_query, user_query, agent_steps, steps, output_text,
                  fallback_applied, fb, oracle_calls, primary, retried, cw, qw, app >>

\* lines 480-517: the first invocation returns; the fallback starts or is
\* skipped
PrimaryReturns ==
  /\ pc = "primary"
  /\ \E out \in OracleOutputs :
       LET text == IF out = None \/ out = <<>> THEN <<>> ELSE out
           plan == FallbackPlan(agent_steps, cfg.location_fallback_fields)
       IN /\ primary' = [done |-> TRUE, output |-> out, steps |-> agent_steps]
          /\ output_text' = text
          /\ steps' = agent_steps
          /\ IF plan.go
               THEN /\ fb' = Attempt(plan.input, plan.term, 2, cfg)
                    /\ remote_calls' = Append(remote_calls, QueryCall(fb'.sql, "driver"))
                    /\ pc' = "fallback"
                    /\ agent_steps' = <<>>
                    /\ UNCHANGED << oracle_calls, ret >>
               ELSE /\ UNCHANGED << fb, remote_calls >>
                    /\ AfterFallback(agent_steps, text, FALSE)
  /\ UNCHANGED << cfg, executor, orig_query, user_query, fallback_applied, retried, cw, qw, app >>

\* lines 510-519: the remote query of an attempt returns or raises
FallbackReply ==
  /\ pc = "fallback"
  /\ LET fields == cfg.location_fallback_fields
         field  == fields[fb.idx]
     IN \E r \in fallback_attempt(fb.input, fields[1], field,
                                 cfg.enforce_latest_guard).replies :
          IF r = RemoteRaise
            THEN /\ steps' = Append(steps, ErrorStep)
                 /\ UNCHANGED << output_text, fallback_applied, remote_calls >>
                 /\ fb' = NoFb
                 /\ AfterFallback(steps', output_text, FALSE)
          ELSE LET count == obs_count(r) IN
            /\ steps' = Append(steps, FallbackStep(field, fb.sql, r))
            /\ IF PositiveCount(count)
                 THEN /\ output_text' = FoundText(count.n, field, fb.term)
                      /\ fallback_applied' = TRUE
                      /\ fb' = NoFb
                      /\ UNCHANGED remote_calls
                      /\ AfterFallback(steps', output_text', TRUE)
               ELSE IF fb.idx < Len(fields)
                 THEN /\ fb' = Attempt(fb.input, fb.term, fb.idx + 1, cfg)
                      /\ remote_calls' = Append(remote_calls, QueryCall(fb'.sql, "driver"))
                      /\ UNCHANGED << output_text, fallback_applied, pc, agent_steps,
                                      oracle_calls, ret >>
               ELSE /\ fb' = NoFb
                    /\ UNCHANGED << output_text, fallback_applied, remote_calls >>
                    /\ AfterFallback(steps', output_text, FALSE)
  /\ UNCHANGED << cfg, executor, orig_query, user_query, primary, retried, cw, qw, app >>

\* lines 524-529: the second invocation returns
RetryReturns ==
  /\ pc = "retry"
  /\ \E out \in OracleOutputs :
       LET text == IF out = None \/ out = <<>> THEN output_text ELSE out IN
       /\ retried' = [done |-> TRUE, output |-> out, steps |-> agent_steps]
       /\ output_text' = text
       /\ steps' = ExtendSteps(steps, agent_steps)
       /\ ret' = Returned(text, steps', Measured)
  /\ pc' = "returned"
  /\ agent_steps' = <<>>
  /\ UNCHANGED << cfg, executor, orig_query, user_query, fallback_applied, fb,
                  remote_calls, oracle_calls, primary, cw, qw, app >>

\* the caller has the result; the locals of ainvoke() are gone
Finish ==
  /\ pc \in {"returned", "raised"}
  /\ pc' = "idle"
  /\ user_query' = <<>>
  /\ agent_steps' = <<>>
  /\ steps' = <<>>
  /\ output_text' = <<>>
  /\ fallback_applied' = FALSE
  /\ fb' = NoFb
  /\ remote_calls' = <<>>
  /\ oracle_calls' = 0
  /\ primary' = NoResult
  /\ retried' = NoResult
  /\ ret' = NoRet
  /\ UNCHANGED << cfg, executor, orig_query, cw, qw, app >>

Next ==
  \/ Connect
  \/ ApplySettings
  \/ Ask
  \/ OracleToolCall
  \/ OracleRaises
  \/ PrimaryReturns
  \/ FallbackReply
  \/ RetryReturns
  \/ Finish

Spec == Init /\ [][Next]_vars

\* The requests with every awaited call answered: ainvoke() awaits the
\* executor (lines 480, 524) and the remote query of an attempt (line 510),
\* and goes on as soon as the awaited call returns or raises.
SpecLive ==
  /\ Init
  /\ [][Next]_vars
  /\ WF_vars(PrimaryReturns)
  /\ WF_vars(FallbackReply)
  /\ WF_vars(RetryReturns)

(***************************************************************************)
(* The count wrapper on its own: _wrap_count_documents._run, one run at a  *)
(* time, with the remote tools answering                                   *)
(***************************************************************************)
K_City   == <<"C","i","t","y">>
K_AgeGt  == <<"c",".","A","g","e"," ",">">>
K_Padded == <<" ","'","c",".","C","i","t","y","'"," ">>
V_Miami  == JStr(<<"M","i","a","m","i">>)

D_Plain    == <<[k |-> TextKey(K_City), v |-> V_Miami]>>
D_Operator == <<[k |-> TextKey(K_AgeGt), v |-> JNum(3)]>>
D_Mixed    == <<[k |-> TextKey(K_City), v |-> V_Miami], [k |-> TextKey(K_AgeGt), v |-> JNum(3)]>>
D_Padded   == <<[k |-> TextKey(K_Padded), v |-> V_Miami]>>
D_Latest   == <<[k |-> TextKey(K_latest), v |-> JNum(1)], [k |-> TextKey(K_City), v |-> V_Miami]>>
D_NonText  == <<[k |-> NonTextKey, v |-> JNum(1)], [k |-> TextKey(K_AgeGt), v |-> JNum(3)]>>

\* the arguments the count wrapper is run with
CountInputs ==
  { JObj(D_Plain), JObj(D_Operator), JObj(D_Mixed), JObj(D_Padded), JObj(D_Latest),
    JObj(D_NonText), JObj(<<>>),
    JObj(<<[k |-> TextKey(K_filters), v |-> JObj(D_Operator)]>>),
    JObj(<<[k |-> TextKey(K_filter), v |-> JObj(D_Plain)]>>),
    JsonText(JObj(D_Plain)), JsonText(JObj(D_Operator)), JsonText(Garbage),
    JsonText(JList(<<>>)), JNum(7) }

CountConfigs ==
  [ location_fallback_fields : {SubSeq(DefaultFields, 1, 1)},
    enforce_latest_guard : BOOLEAN,
    enable_sql_count_fallback : BOOLEAN,
    max_iterations : {1} ]

InitCount ==
  /\ cfg \in CountConfigs
  /\ executor = [connected |-> TRUE, max_iterations |-> 1]
  /\ orig_query \in BOOLEAN
  /\ pc = "idle"
  /\ user_query = <<>>
  /\ agent_steps = <<>>
  /\ steps = <<>>
  /\ output_text = <<>>
  /\ fallback_applied = FALSE
  /\ fb = NoFb
  /\ remote_calls = <<>>
  /\ oracle_calls = 0
  /\ primary = NoResult
  /\ retried = NoResult
  /\ ret = NoRet
  /\ cw = NoCw
  /\ qw = NoQw
  /\ app = NoApp

flow == << executor, pc, user_query, agent_steps, steps, output_text, fallback_applied,
           fb, remote_calls, oracle_calls, primary, retried, ret, app >>

\* lines 264-309: up to the first remote call, or the raise before it
CountInvoke ==
  /\ cw.stage = "idle"
  /\ qw.stage = "idle"
  /\ \E raw \in CountInputs : \E p \in {CountPlan(raw, cfg, orig_query)} :
       cw' = CASE p.act = "raise" ->
                    [NoCw EXCEPT !.stage = "raised", !.raw = raw, !.err = p.err]
               [] p.act = "query" ->
                    [NoCw EXCEPT !.stage = "operator_query", !.raw = raw,
                                 !.calls = <<QueryCall(p.sql, "wrapper")>>]
               [] p.act = "count" ->
                    [NoCw EXCEPT !.stage = "count", !.raw = raw,
                                 !.calls = <<CountCall(p.filters)>>]
  /\ UNCHANGED << cfg, orig_query, qw >>
  /\ UNCHANGED flow

\* lines 308-317: the count tool returns, or raises and the wrapper goes on
CountToolReplies ==
  /\ cw.stage = "count"
  /\ \E r \in ServerCountReturns \cup {RemoteRaise} :
       IF r # RemoteRaise
         THEN cw' = [cw EXCEPT !.stage = "returned", !.obs = r, !.count_reply = r]
         ELSE LET p2 == CountFailedPlan(cw.calls[1].filters, cfg, orig_query) IN
              IF p2.act = "raise"
                THEN cw' = [cw EXCEPT !.stage = "raised", !.err = p2.err, !.count_reply = r]
                ELSE cw' = [cw EXCEPT !.stage = "failed_query", !.count_reply = r,
                                      !.calls = Append(@, QueryCall(p2.sql, "wrapper"))]
  /\ UNCHANGED << cfg, orig_query, qw >>
  /\ UNCHANGED flow

\* lines 302 and 314-316: the run-query tool returns or raises
CountQueryReplies ==
  /\ cw.stage \in {"operator_query", "failed_query"}
  /\ \E r \in QueryReplies(cw.calls[Len(cw.calls)].sql) :
       IF r # RemoteRaise
         THEN cw' = [cw EXCEPT !.stage = "returned", !.obs = r]
         ELSE cw' = [cw EXCEPT !.stage = "raised",
                               !.err = IF cw.stage = "failed_query"
                                         THEN "count_documents failed; SQL COUNT fallback failed"
                                         ELSE "remote error"]
  /\ UNCHANGED << cfg, orig_query, qw >>
  /\ UNCHANGED flow

\* the caller has the result of the run
CountDone ==
  /\ cw.stage \in {"returned", "raised"}
  /\ cw' = NoCw
  /\ UNCHANGED << cfg, orig_query, qw >>
  /\ UNCHANGED flow

\* the arguments the run-query wrapper is run with: the positional arguments
\* and the keyword argument query (Absent: not given)
Q_Tabs == <<"\t", NL>>
\* a fenced block with nothing in it
Q_FenceOnly == <<Tick,Tick,Tick,"s","q","l",NL,Tick,Tick,Tick>>

QueryArgs ==
  [ args : { <<>>, <<JStr(Q_Eq)>>, <<JStr(Q_Blank)>>, <<JStr(<<>>)>>, <<JStr(Q_Tabs)>>, <<JStr(Q_FenceOnly)>>,
             <<JNum(5)>>, <<JStr(Q_Eq), JStr(Q_Eq)>> },
    kw : { Absent, JStr(Q_Eq), JStr(<<>>), JNum(7), JNull } ]

\* lines 239-243: the query of the arguments (None: a value that is no text)
GatherQuery(a) ==
  IF Len(a.args) = 1 /\ a.args[1].t = "str" THEN a.args[1].s
  ELSE IF a.kw.t = "absent" THEN <<>>
  ELSE IF a.kw.t = "str" THEN a.kw.s
  ELSE None

\* lines 238-254: one run of the run-query wrapper, to its return or raise
QueryInvoke ==
  /\ qw.stage = "idle"
  /\ cw.stage = "idle"
  /\ orig_query
  /\ \E a \in QueryArgs : \E r \in {QueryRun(GatherQuery(a), cfg)} :
       \E o \in QueryOutcomes(r.plan, r.replies) :
         qw' = [stage |-> IF o.raised THEN "raised" ELSE "returned", args |-> a,
                calls |-> o.calls, err |-> o.err, obs |-> o.obs]
  /\ UNCHANGED << cfg, orig_query, cw >>
  /\ UNCHANGED flow

\* the caller has the result of the run
QueryDone ==
  /\ qw.stage \in {"returned", "raised"}
  /\ qw' = NoQw
  /\ UNCHANGED << cfg, orig_query, cw >>
  /\ UNCHANGED flow

NextCount ==
  \/ CountInvoke
  \/ CountToolReplies
  \/ CountQueryReplies
  \/ CountDone
  \/ QueryInvoke
  \/ QueryDone

SpecCount == InitCount /\ [][NextCount]_vars


(***************************************************************************)
(* The client with every path to the remote run-query tool: the requests   *)
(* of ainvoke(), and between them the runs of the two wrappers             *)
(***************************************************************************)
NextClient ==
  \/ /\ cw.stage = "idle"
     /\ qw.stage = "idle"
     /\ Next
  \/ /\ pc = "idle"
     /\ executor.connected
     /\ NextCount

SpecClient == Init /\ [][NextClient]_vars

(***************************************************************************)
(* The helper functions on their own: inject_latest_guard,                 *)
(* strip_sql_fences, obs_zero and obs_count applied to an argument, and    *)
(* the two text functions applied once more to their own result            *)
(***************************************************************************)
\* most pieces of an argument text
MaxPieces == 3

\* the pieces the query texts are made of
SqlPieces ==
  { <<"x">>, <<" ">>, <<"1">>,
    <<"W","h","e","r","e">>,
    <<"c",".","l","a","t","e","s","t"," ","="," ","0">>,
    <<"C",".","L","a","t","e","s","t","=","0">>,
    <<"o","r","d","e","r"," ","\t","B","Y">>,
    <<"O","F","F","S","E","T">>,
    <<"l","i","m","i","t">> }

\* the pieces the fenced texts are made of
FencePieces ==
  { <<Tick, Tick, Tick>>, <<Tick>>, <<"s","q","l">>, <<" ">>, <<NL>>, <<"x">> }

RECURSIVE Concat(_)
Concat(ps) == IF ps = <<>> THEN <<>> ELSE Head(ps) \o Concat(Tail(ps))

\* the texts of at most MaxPieces pieces
TextsOf(pieces) == { Concat(ps) : ps \in UNION { [1..n -> pieces] : n \in 0..MaxPieces } }

\* most predicates of a condition
MaxPredicates == 3

\* the queries with a condition: predicates on two fields and on the guard
\* field, combined with AND and OR
CondHead   == <<"S","E","L","E","C","T"," ","*"," ","F","R","O","M"," ","c"," ","W","H","E","R","E"," ">>
Predicates == { <<"c",".","a"," ","="," ","1">>, <<"c",".","b"," ","="," ","1">>,
                <<"c",".","l","a","t","e","s","t"," ","="," ","0">> }
Connectives == { <<" ","A","N","D"," ">>, <<" ","O","R"," ">> }

RECURSIVE Conditions(_)
Conditions(n) ==
  IF n = 1 THEN Predicates
  ELSE { c \o op \o p : c \in Conditions(n - 1), op \in Connectives, p \in Predicates }

CondQueries == { CondHead \o c : c \in UNION { Conditions(n) : n \in 1..MaxPredicates } }

\* the observations obs_zero and obs_count are applied to: objects with and without
\* results and count, values that are no object, each as a value and as
\* its JSON text, and texts that are no JSON
ResultsValues ==
  { Absent, JList(<<>>), JList(<<JNum(0)>>), JList(<<JNum(3)>>), JList(<<JNum(0), JNum(0)>>),
    JList(<<JDoc>>), JList(<<JDoc, JDoc>>), JList(<<JBool(FALSE)>>), JList(<<JStr(<<"0">>)>>),
    JList(<<JReal(2, FALSE)>>), JList(<<JReal(2, TRUE)>>), JNum(0), JStr(<<>>), JNull }
CountValues ==
  { Absent, JNum(0), JNum(2), JBool(FALSE), JBool(TRUE), JReal(2, TRUE), JStr(<<"0">>), JNull }

Payloads ==
  { JDict(r, c, FALSE) : r \in ResultsValues, c \in CountValues }
    \cup { ErrorResult, JList(<<>>), JList(<<JNum(0)>>), JNum(0), JNull, JBool(FALSE) }

Observations ==
  { ObjObs(v) : v \in Payloads } \cup { StrObs(v) : v \in Payloads }
    \cup { StrObs(Garbage), StrObs([t |-> "empty"]) }
    \cup { StrObs(JStr(<<"{","}">>)) }

\* the years of the today dates: MaxYears years from Year0 on, a leap
\* year among them
Year0    == 2023
MaxYears == 2

\* the values of cfg.today: the dates as strftime("%Y-%m-%d") writes them
\* (line 66)
TodayValues ==
  { strftime(Date(t[1], t[2], t[3])) :
      t \in { u \in (Year0..(Year0 + MaxYears - 1)) \X (1..12) \X (1..31) :
                 u[3] <= DaysIn(u[1], u[2]) } }

\* the user texts parse_temporal_window is applied to
TemporalTexts ==
  { P_LastMonth, P_ThisMonth, P_LastYear, P_Past30, P_Last30, U_Show,
    <<"S","a","l","e","s"," ","L","A","S","T"," ","M","O","N","T","H","?">>,
    <<"t","h","i","s"," ","m","o","n","t","h"," ","v","s"," ","l","a","s","t"," ","m","o","n","t","h">> }

TextArg(kind, text) == [kind |-> kind, text |-> text, obs |-> NoObs, today |-> <<>>]
ObsArg(o)           == [kind |-> "obs", text |-> <<>>, obs |-> o, today |-> <<>>]
WindowArg(text, today) == [kind |-> "window", text |-> text, obs |-> NoObs, today |-> today]

HelperArgs ==
  { TextArg("sql", t) : t \in TextsOf(SqlPieces) \cup CondQueries }
    \cup { TextArg("fenced", t) : t \in TextsOf(FencePieces) \cup {None} }
    \cup { ObsArg(o) : o \in Observations }
    \cup { WindowArg(t, d) : t \in TemporalTexts, d \in TodayValues }

Applied(fn, x, y, zero) == [fn |-> fn, x |-> x, y |-> y, yy |-> <<>>, zero |-> zero, n |-> 1,
                            counted |-> FALSE, count |-> NoCount, win |-> NoWindow]

InitHelpers ==
  /\ cfg \in CountConfigs
  /\ executor = NotConnected
  /\ orig_query = FALSE
  /\ pc = "idle"
  /\ user_query = <<>>
  /\ agent_steps = <<>>
  /\ steps = <<>>
  /\ output_text = <<>>
  /\ fallback_applied = FALSE
  /\ fb = NoFb
  /\ remote_calls = <<>>
  /\ oracle_calls = 0
  /\ primary = NoResult
  /\ retried = NoResult
  /\ ret = NoRet
  /\ cw = NoCw
  /\ qw = NoQw
  /\ \E x \in HelperArgs : app = [NoApp EXCEPT !.x = x]

rest == << cfg, executor, orig_query, pc, user_query, agent_steps, steps, output_text,
           fallback_applied, fb, remote_calls, oracle_calls, primary, retried, ret,
           cw, qw >>

\* inject_latest_guard(sql, self.cfg.enforce_latest_guard), lines 108-119
InjectGuard ==
  /\ app.n = 0
  /\ app.x.kind = "sql"
  /\ app' = Applied("inject_latest_guard", app.x,
                    inject_latest_guard(app.x.text, cfg.enforce_latest_guard), FALSE)
  /\ UNCHANGED rest

\* strip_sql_fences(s), lines 77-80
Sanitize ==
  /\ app.n = 0
  /\ app.x.kind = "fenced"
  /\ app' = Applied("strip_sql_fences", app.x, strip_sql_fences(app.x.text), FALSE)
  /\ UNCHANGED rest

\* obs_zero(observation), lines 156-172
IsZero ==
  /\ app.n = 0
  /\ app.x.kind = "obs"
  /\ app' = [Applied("obs_zero", app.x, <<>>, obs_zero(app.x.obs)) EXCEPT
               !.counted = app.counted, !.count = app.count]
  /\ UNCHANGED rest

\* obs_count(observation), lines 174-191, on the observation obs_zero is
\* applied to
ExtractCount ==
  /\ app.x.kind = "obs"
  /\ ~app.counted
  /\ app' = [app EXCEPT !.counted = TRUE, !.count = obs_count(app.x.obs)]
  /\ UNCHANGED rest

\* parse_temporal_window(user_query, self.cfg.today), line 475
TemporalWindow ==
  /\ app.n = 0
  /\ app.x.kind = "window"
  /\ app' = [Applied("parse_temporal_window", app.x, <<>>, FALSE) EXCEPT
               !.win = parse_temporal_window(app.x.text, app.x.today)]
  /\ UNCHANGED rest

\* the text function applied to its own result
Reapply ==
  /\ app.n = 1
  /\ app.fn \in {"inject_latest_guard", "strip_sql_fences"}
  /\ app' = [app EXCEPT
               !.n = 2,
               !.yy = IF app.fn = "inject_latest_guard"
                        THEN inject_latest_guard(app.y, cfg.enforce_latest_guard)
                        ELSE strip_sql_fences(app.y)]
  /\ UNCHANGED rest

NextHelpers ==
  \/ InjectGuard
  \/ Sanitize
  \/ IsZero
  \/ ExtractCount
  \/ TemporalWindow
  \/ Reapply

SpecHelpers == InitHelpers /\ [][NextHelpers]_vars
(***************************************************************************)
(* Properties of ainvoke() (specification Spec)                            *)
(***************************************************************************)
IsFallbackStep(s) == s.kind = "fallback"
IsErrorStep(s)    == s.kind = "error"
IsSynthetic(s)    == s.kind \in {"fallback", "error"}
IsQueryStep(s)    == s.kind = "oracle" /\ s.tool = "query_cosmos"
IsDriverCall(c)   == c.by = "driver"

FallbackStepsOf(stps) == SelectSeq(stps, IsFallbackStep)
ErrorStepsOf(stps)    == SelectSeq(stps, IsErrorStep)
DriverCalls           == SelectSeq(remote_calls, IsDriverCall)

\* result.get("output", "") or ""
OrEmpty(out) == IF out = None THEN <<>> ELSE out

\* the count of an attempt's observation is a positive integer
FoundSome(s) == obs_count(s.obs).some /\ obs_count(s.obs).n > 0

\* the search term of the request: that of the last run-query step of the
\* first invocation
RequestTerm ==
  fallback_base(primary.steps[LastQueryStep(primary.steps)].input,
                cfg.location_fallback_fields[1]).term

\* C1: the candidates (entries 2..n of the field list) are attempted in list
\* order, one remote query at a time, the next only after the reply to the
\* previous one has been classified; no attempt but the last has a positive
\* count, and after an attempt with a positive count nothing more is
\* queried: ainvoke() returns the text that reports that count, that field
\* and the search term.
C1_FallbackInOrder ==
  LET fields == cfg.location_fallback_fields
      fs     == FallbackStepsOf(steps)
      n      == Len(fs)
  IN /\ Len(DriverCalls) = n + Len(ErrorStepsOf(steps)) + (IF pc = "fallback" THEN 1 ELSE 0)
     /\ \A k \in 1..n :
          /\ k + 1 <= Len(fields)
          /\ fs[k].tool = fields[k + 1]
          /\ fs[k].input = DriverCalls[k].sql
          /\ k < n => ~FoundSome(fs[k])
     /\ fallback_applied => n > 0 /\ FoundSome(fs[n])
     /\ (n > 0 /\ FoundSome(fs[n])) =>
          /\ fallback_applied
          /\ pc = "returned"
          /\ Len(DriverCalls) = n
          /\ ret.steps = steps
          /\ ret.text = FoundText(obs_count(fs[n].obs).n, fields[n + 1], RequestTerm)

\* the second candidate answered with a positive count after the first had
\* answered with none
C1_Witness ==
  /\ pc = "returned"
  /\ fallback_applied
  /\ Len(FallbackStepsOf(ret.steps)) = 2
  /\ obs_count(FallbackStepsOf(ret.steps)[2].obs).n = 3

\* the conditions of a fallback attempt, on the trace of the first invocation
FallbackConditions ==
  LET fields == cfg.location_fallback_fields
      ps     == primary.steps
  IN /\ Len(fields) >= 2
     /\ \E i \in 1..Len(ps) :
          /\ IsQueryStep(ps[i])
          /\ \A j \in (i + 1)..Len(ps) : ~IsQueryStep(ps[j])
          /\ obs_zero(ps[i].obs)
          /\ fallback_base(ps[i].input, fields[1]).refers
          /\ fallback_base(ps[i].input, fields[1]).term # None

\* C2: a fallback attempt is made (a query sent by the driver, a synthetic
\* step appended, an error recorded) only if the field list has at least two
\* entries and the most recent run-query step of the oracle's trace has a
\* zero observation, refers to the primary field and yields a search term.
C2_FallbackOnlyIf ==
  ( \/ pc = "fallback"
    \/ DriverCalls # <<>>
    \/ \E i \in 1..Len(steps) : IsSynthetic(steps[i]) )
  => (primary.done /\ FallbackConditions)

\* an attempt is under way after a trace whose earlier run-query step found
\* documents and whose last one found none
C2_Witness ==
  /\ pc = "fallback"
  /\ Len(primary.steps) = 2
  /\ IsQueryStep(primary.steps[1]) /\ ~obs_zero(primary.steps[1].obs)
  /\ IsQueryStep(primary.steps[2]) /\ obs_zero(primary.steps[2].obs)

\* C3: once an exception of the fallback sequence is recorded, the steps of
\* the earlier attempts are still in the trace, there is exactly one error
\* step, right after them, no further candidate is queried, and ainvoke()
\* does not raise.
C3_FallbackErrorCaught ==
  (\E i \in 1..Len(steps) : IsErrorStep(steps[i])) =>
    LET np == Len(primary.steps)
        fs == FallbackStepsOf(steps)
    IN /\ Len(ErrorStepsOf(steps)) = 1
       /\ SubSeq(steps, 1, np + Len(fs) + 1) = primary.steps \o fs \o <<ErrorStep>>
       /\ Len(DriverCalls) = Len(fs) + 1
       /\ pc # "fallback"
       /\ pc # "raised"

\* C3 without its last part: what the except clause of lines 518-519 does
C3_ErrorStepRecorded ==
  (\E i \in 1..Len(steps) : IsErrorStep(steps[i])) =>
    LET np == Len(primary.steps)
        fs == FallbackStepsOf(steps)
    IN /\ Len(ErrorStepsOf(steps)) = 1
       /\ SubSeq(steps, 1, np + Len(fs) + 1) = primary.steps \o fs \o <<ErrorStep>>
       /\ Len(DriverCalls) = Len(fs) + 1
       /\ pc # "fallback"

\* C4: when every candidate has been attempted and none has a positive
\* count, fallback_applied is not set and the answer text is the one of the
\* first invocation: the test of the gentle retry is made on that text.
C4_ExhaustedLeavesAnswer ==
  LET fields == cfg.location_fallback_fields
      fs     == FallbackStepsOf(steps)
      text   == OrEmpty(primary.output)
  IN ( /\ primary.done
       /\ pc \in {"retry", "returned", "raised"}
       /\ Len(fields) >= 2
       /\ Len(fs) = Len(fields) - 1
       /\ \A k \in 1..Len(fs) : ~FoundSome(fs[k]) )
     => /\ ~fallback_applied
        /\ pc = "retry" => output_text = text
        /\ (pc = "returned" /\ ~retried.done) => ret.text = text
        /\ (oracle_calls = 2) <=> (has_retry_keyword(user_query) /\ Len(Strip(text)) < 2)

\* both candidates of a list of three fields were attempted without a count,
\* and the answer of the oracle is returned
C4_Witness ==
  /\ pc = "returned"
  /\ ~retried.done
  /\ Len(cfg.location_fallback_fields) = 3
  /\ Len(FallbackStepsOf(steps)) = 2
  /\ ~FoundSome(FallbackStepsOf(steps)[2])
  /\ ret.text = primary.output
  /\ ret.text # <<>>

\* the three conditions of the gentle retry, on the answer text
RetryConditions(text) ==
  /\ ~fallback_applied
  /\ has_keywords(user_query, RetryWords)
  /\ Len(Strip(text)) < 2

\* C5: the oracle is invoked at most twice in a request; the second
\* invocation is made exactly when the fallback gave no answer, the input
\* holds a retrieval verb and the trimmed answer has fewer than 2
\* characters; after an answer of the fallback the oracle is not invoked
\* again, and the fallback is not run on the trace of the second invocation.
C5_RetryOnce ==
  /\ oracle_calls <= 2
  /\ pc = "retry" => (oracle_calls = 2 /\ RetryConditions(output_text) /\ fb = NoFb)
  /\ retried.done => oracle_calls = 2
  /\ (pc = "returned" /\ primary.done /\ oracle_calls = 1) => ~RetryConditions(ret.text)
  /\ fallback_applied => (oracle_calls = 1 /\ pc # "retry")
  /\ \A i \in 1..Len(steps) : \A j \in (i + 1)..Len(steps) :
       steps[i].inv = 2 => steps[j].kind = "oracle"
  /\ oracle_calls = 2 =>
       Len(DriverCalls) = Len(FallbackStepsOf(steps)) + Len(ErrorStepsOf(steps))

\* the second invocation ended with a run-query step that would start the
\* fallback, after a first invocation whose fallback found nothing
C5_Witness ==
  /\ pc = "returned"
  /\ retried.done
  /\ Len(cfg.location_fallback_fields) >= 2
  /\ Len(FallbackStepsOf(steps)) >= 1
  /\ Len(retried.steps) = 1
  /\ retried.steps[1].input = Q_Eq /\ obs_zero(retried.steps[1].obs)
  /\ steps[Len(steps)] = retried.steps[1]

\* the phrases of the greeting set, in lower case
GreetingPhrases ==
  { <<"h","i">>, <<"h","e","l","l","o">>, <<"h","e","y">>,
    <<"g","r","e","e","t","i","n","g","s">>,
    <<"g","o","o","d"," ","m","o","r","n","i","n","g">>,
    <<"g","o","o","d"," ","a","f","t","e","r","n","o","o","n">>,
    <<"g","o","o","d"," ","e","v","e","n","i","n","g">>,
    <<"t","h","a","n","k">>, <<"t","h","a","n","k","s">>,
    <<"t","h","a","n","k"," ","y","o","u">>,
    <<"o","k">>, <<"o","k","a","y">>, <<"a","l","r","i","g","h","t">>,
    <<"b","y","e">>, <<"g","o","o","d","b","y","e">> }

\* the trimmed input is a phrase of the set, in any case, followed by
\* whitespace, '!' and '.' only
IsGreetingPhrase(q) ==
  RStripCh(Lower(Strip(q)), WS \cup {"!", "."}) \in GreetingPhrases

\* C6: on a connected client, an input that is a greeting phrase makes
\* ainvoke() return the canned answer with an empty trace and elapsed 0.0,
\* with no invocation of the oracle and no call of a remote tool.
C6_GreetingShortCircuit ==
  (pc # "idle" /\ executor.connected /\ IsGreetingPhrase(user_query)) =>
    /\ pc = "returned"
    /\ ret = Returned(CannedText, <<>>, "0.0")
    /\ oracle_calls = 0
    /\ remote_calls = <<>>
    /\ ~primary.done

\* the input " OK. " was answered
C6_Witness ==
  /\ pc = "returned"
  /\ user_query = U_Ok
  /\ ret.text = CannedText
  /\ ret.elapsed = "0.0"

\* C7: after the first invocation the trace is the steps of that invocation,
\* unchanged, then the synthetic steps (the attempts, then at most one error
\* step), then the steps of the second invocation, unchanged; it is the
\* trace ainvoke() returns.
C7_TraceShape ==
  (primary.done /\ pc \in {"fallback", "retry", "returned", "raised"}) =>
    LET np == Len(primary.steps)
        nr == IF retried.done THEN Len(retried.steps) ELSE 0
        n  == Len(steps)
    IN /\ n >= np + nr
       /\ SubSeq(steps, 1, np) = primary.steps
       /\ SubSeq(steps, n - nr + 1, n) = (IF retried.done THEN retried.steps ELSE <<>>)
       /\ \A i \in 1..np : steps[i].kind = "oracle" /\ steps[i].inv = 1
       /\ \A i \in (n - nr + 1)..n : steps[i].kind = "oracle" /\ steps[i].inv = 2
       /\ \A i \in (np + 1)..(n - nr) :
            /\ IsSynthetic(steps[i])
            /\ IsErrorStep(steps[i]) => i = n - nr
       /\ pc = "returned" => ret.steps = steps

\* a returned trace with a step of the first invocation, an attempt of the
\* fallback and a step of the second invocation
C7_Witness ==
  /\ pc = "returned"
  /\ retried.done
  /\ Len(primary.steps) = 1
  /\ Len(retried.steps) = 1
  /\ Len(ret.steps) >= 3
  /\ IsFallbackStep(ret.steps[2])

\* the errors of configuration and of input validation
FatalErrors == { "Client not connected", "expects a non-empty SQL string" }

\* C8: ainvoke() raises only for an error of configuration or of input
\* validation; any other failure leaves it returning an answer and the
\* trace collected so far.
C8_OtherFailuresReturn ==
  pc = "raised" => ret.err \in FatalErrors

(***************************************************************************)
(* Properties of the count wrapper (specification SpecCount)               *)
(***************************************************************************)
IsCountCall(c) == c.tool = "count_documents"
IsQueryCall(c) == c.tool = "query_cosmos"

CountDoneStage == cw.stage \in {"returned", "raised"}

\* the count tool failed: its call raised, or the service answered the call
\* with a failure
CountToolFailed ==
  /\ Len(SelectSeq(cw.calls, IsCountCall)) = 1
  /\ cw.count_reply \in {RemoteRaise, StrObs(ErrorResult)}

\* C9: the count tool is called at most once in a run; when its call fails
\* and the COUNT fallback is enabled and the run-query tool is there, the
\* wrapper sends exactly one COUNT query after it and returns its result,
\* raising the combined error only if that query fails too; otherwise it
\* raises the count error without any query.
C9_CountFailureDowngrades ==
  /\ Len(SelectSeq(cw.calls, IsCountCall)) <= 1
  /\ (CountDoneStage /\ CountToolFailed) =>
       IF cfg.enable_sql_count_fallback /\ orig_query
         THEN /\ Len(cw.calls) = 2
              /\ IsCountCall(cw.calls[1])
              /\ IsQueryCall(cw.calls[2])
              /\ StartsWith(cw.calls[2].sql, CountHead)
              /\ cw.stage = "raised" =>
                   cw.err = "count_documents failed; SQL COUNT fallback failed"
         ELSE /\ cw.stage = "raised"
              /\ cw.err = "count_documents failed"
              /\ Len(cw.calls) = 1

\* C9 for a count call that raised: what lines 308-317 do
C9_RaisedCallDowngrades ==
  /\ Len(SelectSeq(cw.calls, IsCountCall)) <= 1
  /\ (CountDoneStage /\ cw.count_reply = RemoteRaise) =>
       IF cfg.enable_sql_count_fallback /\ orig_query
         THEN /\ Len(cw.calls) = 2
              /\ IsCountCall(cw.calls[1])
              /\ IsQueryCall(cw.calls[2])
              /\ StartsWith(cw.calls[2].sql, CountHead)
              /\ cw.stage = "raised" =>
                   cw.err = "count_documents failed; SQL COUNT fallback failed"
         ELSE /\ cw.stage = "raised"
              /\ cw.err = "count_documents failed"
              /\ Len(cw.calls) = 1

\* the keys of the mapping are texts and a cleaned key is operator-bearing
OperatorKeyed(raw) ==
  LET d == CoerceRaw(raw).d IN
  /\ \A i \in 1..Len(d) : d[i].k.str
  /\ \E i \in 1..Len(clean_filter_keys(d)) :
       has_operatorish_key(clean_filter_keys(d)[i].k)

\* a run for an operator-keyed mapping that makes the one query sql and no
\* other call, or, without the fallback, raises before any call
OperatorKeyRun(sql) ==
  /\ SelectSeq(cw.calls, IsCountCall) = <<>>
  /\ IF cfg.enable_sql_count_fallback /\ orig_query
       THEN cw.calls = <<QueryCall(sql, "wrapper")>>
       ELSE /\ cw.stage = "raised"
            /\ cw.err = "operators not allowed"
            /\ cw.calls = <<>>

\* C10 as stated: for a mapping with an operator-bearing key the count tool
\* is never called; with the fallback enabled and the run-query tool there,
\* exactly one COUNT query is sent, whose condition is the guard predicate;
\* otherwise the run fails with the operators-not-allowed error and no call.
C10_GuardOnlyQuery ==
  (cw.stage # "idle" /\ OperatorKeyed(cw.raw)) =>
    OperatorKeyRun(CountHead \o GuardClause)

\* C10: as C10_GuardOnlyQuery, but the condition of the COUNT query is the
\* guard predicate when the guard is enforced and 1=1 when it is not.
C10_GuardOrTrueQuery ==
  (cw.stage # "idle" /\ OperatorKeyed(cw.raw)) =>
    OperatorKeyRun(CountHead \o (IF cfg.enforce_latest_guard THEN GuardClause ELSE TrueClause))

\* the query for a mapping whose second key is operator-bearing was
\* answered, the guard not being enforced
C10_Witness ==
  /\ cw.stage = "returned"
  /\ cw.raw = JObj(D_Mixed)
  /\ ~cfg.enforce_latest_guard
  /\ Len(cw.calls) = 1
  /\ IsQueryCall(cw.calls[1])


\* the entries of the mapping d for the guard field
GuardEntries(d) == SelectSeq(d, LAMBDA e : e.k = K_latest)

\* C11: with the guard enforced, every mapping the count wrapper gives the
\* count tool has exactly one entry for the guard field, and its value is
\* the sentinel 0, whatever mapping the caller gave.
C11_GuardForced ==
  cfg.enforce_latest_guard =>
    \A i \in 1..Len(cw.calls) :
      IsCountCall(cw.calls[i]) =>
        GuardEntries(cw.calls[i].filters) = <<[k |-> K_latest, v |-> JNum(0)]>>

\* the value the caller gave for the guard field (Absent: none)
CallerGuardValue(raw) ==
  LET clean == clean_filter_keys(CoerceRaw(raw).d)
  IN IF HasKey(clean, K_latest) THEN Get(clean, K_latest) ELSE Absent

\* C11 for what lines 305-306 do: the mapping has exactly one entry for the
\* guard field; its value is the sentinel when the caller gave none, and the
\* caller's value otherwise
C11_GuardPresent ==
  cfg.enforce_latest_guard =>
    \A i \in 1..Len(cw.calls) :
      IsCountCall(cw.calls[i]) =>
        /\ Len(GuardEntries(cw.calls[i].filters)) = 1
        /\ GuardEntries(cw.calls[i].filters)[1].v =
             (IF CallerGuardValue(cw.raw).t = "absent" THEN JNum(0)
              ELSE CallerGuardValue(cw.raw))

\* raw is an object, or the JSON text of one
IsObjectArg(raw) ==
  \/ raw.t = "obj"
  \/ raw.t = "text" /\ raw.json.t = "obj"

\* C12: a run of the count wrapper whose argument cannot be coerced to an
\* object (a text that is no JSON, the JSON text of a list, a number) fails
\* with the invalid-filter-format error and makes no remote call.
C12_InvalidFormatRaises ==
  (cw.stage # "idle" /\ ~IsObjectArg(cw.raw)) =>
    /\ cw.stage = "raised"
    /\ cw.err = "expects a filters dict or JSON string"
    /\ cw.calls = <<>>

\* C12 for what lines 276-291 do: such an argument counts as the empty
\* mapping, and the run goes on to the count tool
C12_InvalidFormatIsEmpty ==
  (cw.stage # "idle" /\ ~IsObjectArg(cw.raw)) =>
    /\ cw.err # "expects a filters dict or JSON string"
    /\ cw.calls # <<>>
    /\ cw.calls[1] = CountCall(IF cfg.enforce_latest_guard
                                 THEN <<[k |-> K_latest, v |-> JNum(0)]>> ELSE <<>>)

\* a text of whitespace only (the empty text too)
IsBlankText(t) == \A i \in 1..Len(t) : t[i] \in WS

\* the query given to the run-query wrapper is empty, whitespace or no text
InvalidQueryArgs(a) == GatherQuery(a) = None \/ IsBlankText(GatherQuery(a))

\* the mapping given to the count wrapper has a key that is no text
NonTextKeyed(raw) == \E i \in 1..Len(CoerceRaw(raw).d) : ~CoerceRaw(raw).d[i].k.str

\* C13: a run of the run-query wrapper with an empty, whitespace-only or
\* non-text query, and a run of the count wrapper with a filter key that is
\* no text, end with the validation error raised and no remote call made.
C13_ValidationRaisesAtOnce ==
  /\ (qw.stage # "idle" /\ InvalidQueryArgs(qw.args)) =>
       /\ qw.stage = "raised"
       /\ qw.err = "expects a non-empty SQL string"
       /\ qw.calls = <<>>
  /\ (cw.stage # "idle" /\ NonTextKeyed(cw.raw)) =>
       /\ cw.stage = "raised"
       /\ cw.err = "Filter keys must be strings"
       /\ cw.calls = <<>>

\* the run-query wrapper raised for a query of a tab and a newline
C13_Witness ==
  /\ qw.stage = "raised"
  /\ qw.args = [args |-> <<JStr(Q_Tabs)>>, kw |-> Absent]
  /\ qw.calls = <<>>

(***************************************************************************)
(* Properties of the helper functions (specification SpecHelpers).  The    *)
(* guard predicate and the keywords are recognised here by reading the     *)
(* text, without the regular expressions of the model.                     *)
(***************************************************************************)
InjectApplied   == app.fn = "inject_latest_guard" /\ app.n >= 1
SanitizeApplied == app.fn = "strip_sql_fences" /\ app.n >= 1

\* the text w, in any letter case, lies at position p of s (after s[p]) as
\* a word of its own
WordAt(s, p, w) ==
  /\ p + Len(w) <= Len(s)
  /\ Lower(SubSeq(s, p + 1, p + Len(w))) = w
  /\ ~IsWordAt(s, p)
  /\ ~IsWordAt(s, p + Len(w) + 1)

\* s[z] is the digit 0 and ends a word
ZeroAt(s, z) == z <= Len(s) /\ s[z] = "0" /\ ~IsWordAt(s, z + 1)

\* s[e] is the equals sign, followed after optional whitespace by the 0
EqualsZeroAt(s, e) == e <= Len(s) /\ s[e] = "=" /\ ZeroAt(s, LStripFrom(s, e + 1))

\* the guard predicate (c.latest, =, 0, whitespace allowed around the
\* equals sign, any letter case) begins after s[p]
GuardPredicateAt(s, p) ==
  /\ p + 8 <= Len(s)
  /\ Lower(SubSeq(s, p + 1, p + 8)) = <<"c",".","l","a","t","e","s","t">>
  /\ ~IsWordAt(s, p)
  /\ EqualsZeroAt(s, LStripFrom(s, p + 9))

GuardPredicates(s) == { p \in 0..Len(s) : GuardPredicateAt(s, p) }

\* C14: inject_latest_guard returns its argument unchanged when the guard is
\* not enforced, and when the argument already holds the guard predicate, in
\* any letter case.
C14_UnchangedWhenGuarded ==
  (InjectApplied /\ (~cfg.enforce_latest_guard \/ GuardPredicates(app.x.text) # {}))
    => app.y = app.x.text

\* an enforced guard left a query with the predicate in another case and
\* without spaces as it was
C14_Witness ==
  /\ InjectApplied
  /\ cfg.enforce_latest_guard
  /\ app.x.text = <<"W","h","e","r","e"," ","C",".","L","a","t","e","s","t","=","0">>
  /\ app.y = app.x.text

\* the WHERE keyword begins after s[p]
WhereAt(s, p) == WordAt(s, p, <<"w","h","e","r","e">>)

Wheres(s) == { p \in 0..Len(s) : WhereAt(s, p) }

\* the text s with the text t put in after s[p]
InsertAt(s, p, t) == SubSeq(s, 1, p) \o t \o SubSeq(s, p + 1, Len(s))

\* C15: for a query with a WHERE keyword and no guard predicate, the result
\* of inject_latest_guard (enforced) is the query with " c.latest = 0 AND"
\* put in right after the first WHERE keyword and nothing else changed,
\* also when ORDER BY, OFFSET or LIMIT occur; the result holds the guard
\* predicate, and a second call returns it unchanged.
C15_GuardAfterWhere ==
  ( /\ InjectApplied
    /\ cfg.enforce_latest_guard
    /\ Wheres(app.x.text) # {}
    /\ GuardPredicates(app.x.text) = {} )
  => /\ app.y = InsertAt(app.x.text, SetMin(Wheres(app.x.text)) + 5, GuardAnd)
     /\ GuardPredicates(app.y) # {}
     /\ app.n = 2 => app.yy = app.y

\* the guard went after a WHERE that follows a LIMIT, and the second call
\* changed nothing
C15_Witness ==
  /\ app.fn = "inject_latest_guard"
  /\ app.n = 2
  /\ cfg.enforce_latest_guard
  /\ app.x.text = <<"l","i","m","i","t"," ","W","h","e","r","e">>
  /\ app.y = app.x.text \o GuardAnd
  /\ app.yy = app.y

\* s[i..] begins, after at least one whitespace character, with the word BY
ByAfterSpace(s, i) ==
  /\ i <= Len(s) /\ s[i] \in WS
  /\ Lower(SubSeq(s, LStripFrom(s, i), LStripFrom(s, i) + 1)) = <<"b","y">>
  /\ LStripFrom(s, i) + 1 <= Len(s)
  /\ ~IsWordAt(s, LStripFrom(s, i) + 2)

\* one of the keywords ORDER BY, OFFSET, LIMIT begins after s[p]
KeywordAt(s, p) ==
  \/ WordAt(s, p, <<"o","f","f","s","e","t">>)
  \/ WordAt(s, p, <<"l","i","m","i","t">>)
  \/ /\ p + 5 <= Len(s)
     /\ Lower(SubSeq(s, p + 1, p + 5)) = <<"o","r","d","e","r">>
     /\ ~IsWordAt(s, p)
     /\ ByAfterSpace(s, p + 6)

Keywords(s) == { p \in 0..Len(s) : KeywordAt(s, p) }

\* C16: for a query with no WHERE keyword and no guard predicate, the
\* result of inject_latest_guard (enforced) is: when ORDER BY, OFFSET or
\* LIMIT occurs, the text before the first such keyword without its trailing
\* whitespace, then " WHERE c.latest = 0 ", then the query from that keyword
\* on, unchanged; when none occurs, the query without its trailing
\* whitespace, then " WHERE c.latest = 0".
C16_GuardBeforeKeyword ==
  ( /\ InjectApplied
    /\ cfg.enforce_latest_guard
    /\ Wheres(app.x.text) = {}
    /\ GuardPredicates(app.x.text) = {} )
  => IF Keywords(app.x.text) # {}
       THEN app.y = RStrip(SubSeq(app.x.text, 1, SetMin(Keywords(app.x.text))))
                      \o GuardWhere \o <<" ">>
                      \o SubSeq(app.x.text, SetMin(Keywords(app.x.text)) + 1,
                                Len(app.x.text))
       ELSE app.y = RStrip(app.x.text) \o GuardWhere

\* the clause went before the first of two keywords
C16_Witness ==
  /\ InjectApplied
  /\ cfg.enforce_latest_guard
  /\ app.x.text = <<"l","i","m","i","t"," ","O","F","F","S","E","T">>
  /\ app.y = GuardWhere \o <<" ","l","i","m","i","t"," ","O","F","F","S","E","T">>

\* C17 as stated: the result of inject_latest_guard (enforced) holds the
\* guard predicate exactly once.
C17_ExactlyOneGuard ==
  (InjectApplied /\ cfg.enforce_latest_guard) =>
    Cardinality(GuardPredicates(app.y)) = 1

\* C17: the result of inject_latest_guard (enforced) holds the guard
\* predicate at least once: exactly once when the argument holds it at most
\* once, and as often as the argument when that holds it more than once.
C17_OneGuardOrAsGiven ==
  (InjectApplied /\ cfg.enforce_latest_guard) =>
    Cardinality(GuardPredicates(app.y)) =
      (IF GuardPredicates(app.x.text) = {} THEN 1
       ELSE Cardinality(GuardPredicates(app.x.text)))

\* a query that almost holds the predicate (c.latest = 01) got it once
C17_Witness ==
  /\ InjectApplied
  /\ cfg.enforce_latest_guard
  /\ app.x.text = <<"c",".","l","a","t","e","s","t"," ","="," ","0","1">>
  /\ Cardinality(GuardPredicates(app.y)) = 1

FenceMarker == <<Tick, Tick, Tick>>

\* C18 as stated: strip_sql_fences applied to its own result changes
\* nothing, for every text; an argument that is no text is returned as it is.
C18_SanitizeIdempotent ==
  /\ (app.fn = "strip_sql_fences" /\ app.n = 2) => app.yy = app.y
  /\ (SanitizeApplied /\ app.x.text = None) => app.y = None

\* C18 for an argument that is no text (lines 78-79), and for a text
\* without a backquote, whose result is the trimmed text, which a second
\* application leaves as it is
C18_NonTextUnchanged ==
  /\ (SanitizeApplied /\ app.x.text = None) => app.y = None
  /\ (SanitizeApplied /\ app.x.text # None /\ ~Contains(app.x.text, <<Tick>>)) =>
       /\ app.y = Strip(app.x.text)
       /\ app.n = 2 => app.yy = app.y

\* C19 as stated: the result of strip_sql_fences for a text holds no run of
\* three backquotes.
C19_NoFenceLeft ==
  (SanitizeApplied /\ app.x.text # None) => ~Contains(app.y, FenceMarker)

\* C19 for a text whose only backquotes are a fence at its start and a
\* fence at its end: the result holds no backquote
C19_OuterFencesRemoved ==
  \A body \in TextsOf(FencePieces \ {<<Tick>>, FenceMarker}) :
    (SanitizeApplied /\ app.x.text # None
       /\ app.x.text \in { FenceMarker \o body, body \o FenceMarker,
                           FenceMarker \o body \o FenceMarker })
      => ~Contains(app.y, <<Tick>>)

\* the JSON value v is the number zero
IsNumberZero(v) == (v.t = "num" /\ v.n = 0) \/ (v.t = "real" /\ v.i = 0 /\ v.exact)

\* the payload v is an object whose results is [0] or [], or whose count
\* is 0
ZeroPayload(v) ==
  /\ v.t = "dict"
  /\ \/ /\ v.results.t = "list"
        /\ \/ Len(v.results.items) = 0
           \/ Len(v.results.items) = 1 /\ IsNumberZero(v.results.items[1])
     \/ IsNumberZero(v.count)

\* the JSON value v is the number zero or the boolean false
IsZeroOrFalse(v) == IsNumberZero(v) \/ v = JBool(FALSE)

ZeroOrFalsePayload(v) ==
  /\ v.t = "dict"
  /\ \/ /\ v.results.t = "list"
        /\ \/ Len(v.results.items) = 0
           \/ Len(v.results.items) = 1 /\ IsZeroOrFalse(v.results.items[1])
     \/ IsZeroOrFalse(v.count)

\* the observation is an object, or a text that decodes
IsPayload(o) == o.enc = "obj" \/ (o.enc = "str" /\ o.val.t \notin {"garbage", "empty"})

\* C20 as stated: obs_zero is true exactly for a payload, given as an object
\* or as its JSON text, whose results is [0] or [] or whose count is 0, and
\* false for every other payload and for a text that does not decode.
C20_ZeroExactly ==
  app.fn = "obs_zero" =>
    (app.zero <=> (IsPayload(app.x.obs) /\ ZeroPayload(app.x.obs.val)))

\* C20 with the equality of line 164 and line 168: the boolean false counts
\* as zero there
C20_ZeroOrFalse ==
  app.fn = "obs_zero" =>
    (app.zero <=> (IsPayload(app.x.obs) /\ ZeroOrFalsePayload(app.x.obs.val)))

(***************************************************************************)
(* obs_count: which number it returns                                      *)
(***************************************************************************)
\* the JSON value v is a number
IsNumber(v) == v.t \in {"num", "real"}

\* the count c is the number v itself
IsTheNumber(c, v) ==
  /\ c.some
  /\ \/ v.t = "num" /\ c.n = v.n
     \/ v.t = "real" /\ v.exact /\ c.n = v.i

\* the count c is what the precedence gives for the payload v, a value of
\* the kinds in numeric counting as a number and those in integer as an
\* integer
CountByPrecedence(c, v, numeric, integer) ==
  IF v.t # "dict" THEN c = NoCount
  ELSE IF v.results.t = "list"
    THEN IF Len(v.results.items) = 1 /\ v.results.items[1].t \in numeric
           THEN c = SomeCount(IntOf(v.results.items[1]))
                  /\ (IsNumber(v.results.items[1]) => IsTheNumber(c, v.results.items[1]))
           ELSE c = SomeCount(Len(v.results.items))
  ELSE IF v.count.t \in integer THEN c = SomeCount(IntOf(v.count))
  ELSE c = NoCount

\* C21 as stated: obs_count returns the single element when results is a
\* one-element sequence of a number, otherwise the length of results when
\* results is a sequence, otherwise count when count is an integer, and
\* otherwise nothing; a text that does not decode gives nothing.
C21_CountPrecedence ==
  app.counted =>
    IF ~IsPayload(app.x.obs) THEN app.count = NoCount
    ELSE CountByPrecedence(app.count, app.x.obs.val, {"num", "real"}, {"num"})

\* C21 with the type tests and the conversion of lines 183-187: a boolean
\* counts as a number and as an integer, and the element is given as int()
\* of it
C21_CountPrecedenceAsConverted ==
  app.counted =>
    IF ~IsPayload(app.x.obs) THEN app.count = NoCount
    ELSE LET v == app.x.obs.val IN
      IF v.t # "dict" THEN app.count = NoCount
      ELSE IF v.results.t = "list"
        THEN IF Len(v.results.items) = 1 /\ v.results.items[1].t \in {"num", "real", "bool"}
               THEN app.count = SomeCount(IntOf(v.results.items[1]))
               ELSE app.count = SomeCount(Len(v.results.items))
      ELSE IF v.count.t \in {"num", "bool"} THEN app.count = SomeCount(IntOf(v.count))
      ELSE app.count = NoCount

\* a payload with a results sequence of several rows and a count field was
\* counted by its rows
C21_Witness ==
  /\ app.counted
  /\ app.x.obs = StrObs(JDict(JList(<<JDoc, JDoc>>), JNum(0), FALSE))
  /\ app.count = SomeCount(2)

(***************************************************************************)
(* parse_temporal_window: the window of "last month"                       *)
(***************************************************************************)
WindowApplied == app.fn = "parse_temporal_window"

\* the first day of the month before the month of the date dt
FirstOfPreviousMonth(dt) ==
  IF dt.m = 1 THEN Date(dt.y - 1, 12, 1) ELSE Date(dt.y, dt.m - 1, 1)

\* the date a is before the date b
DateBefore(a, b) ==
  \/ a.y < b.y
  \/ a.y = b.y /\ a.m < b.m
  \/ a.y = b.y /\ a.m = b.m /\ a.d < b.d

\* the window is the one of the month before today's
IsLastMonthWindow(w, today) ==
  /\ w.some
  /\ fromisoformat(w.start) = FirstOfPreviousMonth(today)
  /\ fromisoformat(w.end) = Date(today.y, today.m, 1)
  /\ w.start = strftime(fromisoformat(w.start))
  /\ w.end = strftime(fromisoformat(w.end))

\* the start of a computed window is before its end
StartBeforeEnd(w) == w.some => DateBefore(fromisoformat(w.start), fromisoformat(w.end))

\* C22 as stated: for every text containing "last month" and every today
\* date, the window is [first day of the previous month, first day of this
\* month), and in every computed window the start is before the end.
C22_LastMonthWindow ==
  WindowApplied =>
    /\ Contains(Lower(app.x.text), P_LastMonth) =>
         IsLastMonthWindow(app.win, fromisoformat(app.x.today))
    /\ StartBeforeEnd(app.win)

\* C22 for the texts that do not also contain "this month", which line 85
\* tests first
C22_LastMonthUnlessThisMonth ==
  WindowApplied =>
    /\ (Contains(Lower(app.x.text), P_LastMonth) /\ ~Contains(Lower(app.x.text), P_ThisMonth)) =>
         IsLastMonthWindow(app.win, fromisoformat(app.x.today))
    /\ StartBeforeEnd(app.win)

\* "last month" asked in a January: the window starts in the December of
\* the year before
C22_Witness ==
  /\ WindowApplied
  /\ app.x.text = <<"S","a","l","e","s"," ","L","A","S","T"," ","M","O","N","T","H","?">>
  /\ app.x.today = <<"2","0","2","4","-","0","1","-","3","1">>
  /\ app.win = [some |-> TRUE,
                start |-> <<"2","0","2","3","-","1","2","-","0","1">>,
                end |-> <<"2","0","2","4","-","0","1","-","0","1">>]

(***************************************************************************)
(* The query of a fallback attempt                                         *)
(***************************************************************************)
\* the start positions of the predicates on field, of the equality form
\* and of the contains form
EqualityPredicates(sql, field) == Starts(EqRe(field), sql)
ContainsPredicates(sql, field) == Starts(LikeRe(field), sql)

\* sql with the text from position p + 1 to position q replaced by clause
Replaced(sql, p, q, clause) == SubSeq(sql, 1, p) \o clause \o SubSeq(sql, q + 1, Len(sql))

\* sql with its predicate of the form re that starts at p rewritten
RewrittenAt(sql, re, p, new_field, term) ==
  Replaced(sql, p, SetMax(Ends(re, sql, p)), LikeClause(new_field, term))

\* the first predicate on old_field, whichever its form, rewritten
FirstPredicateRewritten(sql, old_field, new_field, term) ==
  LET eq == EqualityPredicates(sql, old_field)
      lk == ContainsPredicates(sql, old_field)
  IN  IF eq \cup lk = {} THEN sql
      ELSE IF SetMin(eq \cup lk) \in eq
        THEN RewrittenAt(sql, EqRe(old_field), SetMin(eq \cup lk), new_field, term)
      ELSE RewrittenAt(sql, LikeRe(old_field), SetMin(eq \cup lk), new_field, term)

\* the first equality predicate on old_field rewritten, or without one the
\* first contains predicate
EqualityFirstRewritten(sql, old_field, new_field, term) ==
  LET eq == EqualityPredicates(sql, old_field)
      lk == ContainsPredicates(sql, old_field)
  IN  IF eq # {} THEN RewrittenAt(sql, EqRe(old_field), SetMin(eq), new_field, term)
      ELSE IF lk # {} THEN RewrittenAt(sql, LikeRe(old_field), SetMin(lk), new_field, term)
      ELSE sql

\* the sanitized query of a step with the text tool_input
SanitizedQuery(tool_input) == strip_sql_fences(Strip(tool_input))

\* the queries the attempts after a step must carry, by the query of the
\* step, the primary field, the candidate field and the guard mode: with the
\* first predicate rewritten, and with the equality predicate rewritten first
FirstPredicateQueries ==
  <<>> @@ [ k \in (1..Len(QuerySeq)) \X { FieldNo(f) : f \in PrimaryFields }
                    \X (1..Len(DefaultFields)) \X BOOLEAN |->
              LET base == SanitizedQuery(QuerySeq[k[1]])
                  term == extract_location_term(base, DefaultFields[k[2]])
              IN  IF term = None THEN None
                  ELSE inject_latest_guard(
                         FirstPredicateRewritten(base, DefaultFields[k[2]],
                                                 DefaultFields[k[3]], term), k[4]) ]

EqualityFirstQueries ==
  <<>> @@ [ k \in (1..Len(QuerySeq)) \X { FieldNo(f) : f \in PrimaryFields }
                    \X (1..Len(DefaultFields)) \X BOOLEAN |->
              LET base == SanitizedQuery(QuerySeq[k[1]])
                  term == extract_location_term(base, DefaultFields[k[2]])
              IN  IF term = None THEN None
                  ELSE inject_latest_guard(
                         EqualityFirstRewritten(base, DefaultFields[k[2]],
                                                DefaultFields[k[3]], term), k[4]) ]

\* the key of the attempt recorded by step i of the trace, the attempts
\* having started from the last run-query step of the first invocation
AttemptKey(i) ==
  << QueryNo(primary.steps[LastQueryStep(primary.steps)].input),
     FieldNo(cfg.location_fallback_fields[1]),
     FieldNo(steps[i].tool),
     cfg.enforce_latest_guard >>

FallbackSteps == { i \in 1..Len(steps) : steps[i].kind = "fallback" }

\* the query of every attempt is the one sent to the remote tool
AttemptsAsSent ==
  \A n \in 1..Len(DriverCalls) :
    \A i \in FallbackSteps :
      Cardinality({ j \in FallbackSteps : j <= i }) = n => steps[i].input = DriverCalls[n].sql

\* C23 as stated: the query of every fallback attempt is built from the
\* sanitized query of the triggering step, with the first predicate on the
\* primary field, of either form, replaced by the contains predicate on the
\* candidate field with the extracted term, the rest unchanged, and the
\* guard injector applied afterwards.
C23_FirstPredicateReplaced ==
  /\ AttemptsAsSent
  /\ \A i \in FallbackSteps : steps[i].input = FirstPredicateQueries[AttemptKey(i)]

\* C23 with the order of lines 211-221: an equality predicate on the primary
\* field is replaced before any contains predicate, wherever it stands
C23_EqualityPredicateFirst ==
  /\ AttemptsAsSent
  /\ \A i \in FallbackSteps : steps[i].input = EqualityFirstQueries[AttemptKey(i)]

\* the second attempt after a fenced contains query: its query is the
\* sanitized query with the candidate field, not the query of the first
\* attempt
C23_Witness ==
  /\ Cardinality(FallbackSteps) = 2
  /\ primary.steps[LastQueryStep(primary.steps)].input = Q_CountLikeFenced
  /\ cfg.enforce_latest_guard
  /\ \E i \in FallbackSteps :
       /\ steps[i].tool = F_Area
       /\ steps[i].input =
            <<"S","E","L","E","C","T"," ","V","A","L","U","E"," ","C","O","U","N","T","(","1",")"," ",
              "F","R","O","M"," ","c"," ","W","H","E","R","E"," ",
              "c",".","l","a","t","e","s","t"," ","="," ","0"," ","A","N","D"," ",
              "c",".","A","r","e","a"," ","L","I","K","E"," ","'","%","M","i","a","%","'">>

(***************************************************************************)
(* The guard on every query that reaches the remote run-query tool         *)
(***************************************************************************)
\* the calls of the remote tools: those of a request, and those of the runs
\* of the two wrappers
RemoteCalls == remote_calls \o cw.calls \o qw.calls

RemoteQueries == SelectSeq(RemoteCalls, LAMBDA c : c.tool = "query_cosmos")

\* C24: with the guard enforced, every query text that reaches the remote
\* run-query tool, sent by the run-query wrapper, by the count wrapper for
\* operator keys or after a failed count, or by a fallback attempt, contains
\* the guard predicate.
C24_EveryQueryGuarded ==
  cfg.enforce_latest_guard =>
    \A i \in 1..Len(RemoteQueries) : GuardPredicates(RemoteQueries[i].sql) # {}

\* a request with the guard enforced has sent a query of the oracle and the
\* query of a fallback attempt
C24_Witness ==
  /\ cfg.enforce_latest_guard
  /\ pc = "fallback"
  /\ \E i, j \in 1..Len(remote_calls) :
       /\ remote_calls[i].by = "wrapper" /\ remote_calls[i].tool = "query_cosmos"
       /\ remote_calls[j].by = "driver"
       /\ GuardPredicates(remote_calls[j].sql) # {}

(***************************************************************************)
(* The run-query wrapper: the text it gives the remote tool                *)
(***************************************************************************)
\* the run of the run-query wrapper has passed the validation of line 245
PassedValidation == qw.stage # "idle" /\ ~InvalidQueryArgs(qw.args)

\* C25: for an input that passes its validation, the run-query wrapper
\* never gives the remote tool an empty or whitespace-only query text.
C25_NeverBlankQuery ==
  PassedValidation => \A i \in 1..Len(qw.calls) : ~IsBlankText(qw.calls[i].sql)

\* C25 for the inputs with something besides fences and whitespace: the
\* text given to the remote tool is not blank
C25_NotBlankUnlessOnlyFences ==
  (PassedValidation /\ ~IsBlankText(strip_sql_fences(GatherQuery(qw.args)))) =>
    \A i \in 1..Len(qw.calls) : ~IsBlankText(qw.calls[i].sql)

(***************************************************************************)
(* The documents a query with the injected guard selects.  A condition is  *)
(* read as the query language reads it: AND binds tighter than OR.         *)
(***************************************************************************)
Documents == [latest : {0, 1}, a : {0, 1}, b : {0, 1}]

\* the position of the first occurrence of sub in s (0: none)
FindFirst(s, sub) ==
  LET ps == { p \in 1..(Len(s) - Len(sub) + 1) : SubSeq(s, p, p + Len(sub) - 1) = sub }
  IN IF ps = {} THEN 0 ELSE SetMin(ps)

\* the parts of s between the occurrences of sep
RECURSIVE SplitOn(_, _)
SplitOn(s, sep) ==
  IF FindFirst(s, sep) = 0 THEN {s}
  ELSE {SubSeq(s, 1, FindFirst(s, sep) - 1)}
         \cup SplitOn(SubSeq(s, FindFirst(s, sep) + Len(sep), Len(s)), sep)

\* the condition of a query: the text after its WHERE
ConditionOf(sql) ==
  SubSeq(sql, FindFirst(sql, <<"W","H","E","R","E"," ">>) + 6, Len(sql))

\* the value of the field named by the predicate c.<field> = <digit>
FieldValue(doc, pred) ==
  LET field == SubSeq(pred, 3, Len(pred) - 4)
  IN  IF field = <<"a">> THEN doc.a ELSE IF field = <<"b">> THEN doc.b ELSE doc.latest

PredicateHolds(doc, pred) == FieldValue(doc, pred) = DigitVal(pred[Len(pred)])

\* the query selects the document: one of the operands of its ORs has all
\* the operands of its ANDs true
Selects(sql, doc) ==
  \E branch \in SplitOn(ConditionOf(sql), <<" ","O","R"," ">>) :
    \A pred \in SplitOn(branch, <<" ","A","N","D"," ">>) : PredicateHolds(doc, pred)

IsCondQuery(sql) == Len(sql) > Len(CondHead) /\ SubSeq(sql, 1, Len(CondHead)) = CondHead

GuardedCond ==
  /\ InjectApplied
  /\ cfg.enforce_latest_guard
  /\ IsCondQuery(app.x.text)

\* C26: with the guard enabled, the injected query of a query whose
\* condition combines predicates with AND and OR selects no document whose
\* guard field differs from 0.
C26_GuardConstrainsEveryBranch ==
  GuardedCond => \A doc \in Documents : Selects(app.y, doc) => doc.latest = 0

\* C26 for the conditions without OR: the injected query selects no
\* document whose guard field differs from 0
C26_GuardConstrainsConjunction ==
  (GuardedCond /\ FindFirst(app.x.text, <<" ","O","R"," ">>) = 0) =>
    \A doc \in Documents : Selects(app.y, doc) => doc.latest = 0

(***************************************************************************)
(* The COUNT query after a failed call of the count tool                   *)
(***************************************************************************)
\* the count tool has failed and the count wrapper has sent its COUNT query
CountDowngraded ==
  /\ Len(cw.calls) = 2
  /\ IsCountCall(cw.calls[1])
  /\ cw.calls[2].tool = "query_cosmos"

\* the conditions of the COUNT query: the operands of its ANDs
CountClauses(sql) == SplitOn(SubSeq(sql, Len(CountHead) + 1, Len(sql)), AndSep)

\* C27: the COUNT query sent after a failed call of the count tool has an
\* equality clause for every entry of the mapping that was sent to the count
\* tool, the entry of the guard field included.
C27_ClauseForEveryEntry ==
  CountDowngraded =>
    \A i \in 1..Len(cw.calls[1].filters) :
      EqClause(cw.calls[1].filters[i].k, cw.calls[1].filters[i].v)
        \in CountClauses(cw.calls[2].sql)

\* C27 without the entry of the guard field, which line 146 leaves out: the
\* COUNT query has a clause for every other entry, and the guard clause when
\* the guard is enforced
C27_ClauseForEveryOtherEntry ==
  CountDowngraded =>
    /\ \A i \in 1..Len(cw.calls[1].filters) :
         cw.calls[1].filters[i].k # K_latest =>
           EqClause(cw.calls[1].filters[i].k, cw.calls[1].filters[i].v)
             \in CountClauses(cw.calls[2].sql)
    /\ cfg.enforce_latest_guard => GuardClause \in CountClauses(cw.calls[2].sql)

(***************************************************************************)
(* obs_zero and obs_count on the same observation                          *)
(***************************************************************************)
BothApplied == app.fn = "obs_zero" /\ app.counted

\* the payload is of a declared shape: an object whose results, when it has
\* one, is a sequence of one number or a sequence of documents, and whose
\* count, when it has one, is an integer
IsItems(r) == r.t = "list" /\ \A i \in 1..Len(r.items) : r.items[i] = JDoc
IsOneNumber(r) == r.t = "list" /\ Len(r.items) = 1 /\ r.items[1].t \in {"num", "real"}

DeclaredShape(v) ==
  /\ v.t = "dict"
  /\ v.results = Absent \/ IsItems(v.results) \/ IsOneNumber(v.results)
  /\ v.count = Absent \/ v.count.t = "num"
  /\ v.results # Absent \/ v.count # Absent

\* the count field of the payload is the number of its results, as
\* format_query_results of the server sets it
CountOfResults(v) == v.count = Absent \/ v.results = Absent \/ v.count = JNum(Len(v.results.items))

C28_ZeroNeverPositiveWhenCountOfResults ==
  (BothApplied /\ IsPayload(app.x.obs) /\ DeclaredShape(app.x.obs.val)
     /\ CountOfResults(app.x.obs.val)) =>
    (app.zero => ~PositiveCount(app.count))

(***************************************************************************)
(* Apply Settings between two requests                                     *)
(***************************************************************************)
\* an invocation of the oracle is under way
OracleRunning == pc \in {"primary", "retry"}

\* C29: a request made after Apply Settings uses the patched values: the
\* wrappers and the fallback work with the patched guard mode and field
\* list, and an invocation of the oracle makes at most the patched
\* max_iterations steps.
C29_PatchedSettingsUsed ==
  /\ OracleRunning => Len(agent_steps) <= cfg.max_iterations
  /\ cfg.enforce_latest_guard =>
       \A i \in 1..Len(remote_calls) :
         remote_calls[i].tool = "query_cosmos" => GuardPredicates(remote_calls[i].sql) # {}
  /\ \A i \in FallbackSteps :
       \E k \in 2..Len(cfg.location_fallback_fields) :
         steps[i].tool = cfg.location_fallback_fields[k]

\* C29 with the bound the executor was built with: an invocation of the
\* oracle makes at most the max_iterations of the time of connect() steps;
\* the guard mode and the field list are the patched ones
C29_ConnectTimeIterations ==
  /\ OracleRunning => Len(agent_steps) <= executor.max_iterations
  /\ cfg.enforce_latest_guard =>
       \A i \in 1..Len(remote_calls) :
         remote_calls[i].tool = "query_cosmos" => GuardPredicates(remote_calls[i].sql) # {}
  /\ \A i \in FallbackSteps :
       \E k \in 2..Len(cfg.location_fallback_fields) :
         steps[i].tool = cfg.location_fallback_fields[k]

(***************************************************************************)
(* Termination of a request                                                *)
(***************************************************************************)
RequestRunning == pc \in {"primary", "fallback", "retry"}
RequestOver    == pc \in {"returned", "raised"}

\* the bounds of one request: two invocations of the oracle, and one query
\* of the driver for each field of the list after the first
WithinRequestBounds ==
  /\ oracle_calls <= 2
  /\ Len(DriverCalls) <= Len(cfg.location_fallback_fields) - 1

\* C30: with every invocation of the oracle and every remote call
\* returning or raising, a request always ends, returned or raised, after
\* at most 2 invocations of the oracle and at most one query of the driver
\* for each field of the list after the first.
C30_RequestTerminates ==
  /\ []WithinRequestBounds
  /\ RequestRunning ~> RequestOver

\* a request has returned after two invocations of the oracle and an attempt
\* on every candidate field
C30_Witness ==
  /\ pc = "returned"
  /\ oracle_calls = 2
  /\ Len(cfg.location_fallback_fields) = MaxFields
  /\ Len(DriverCalls) = MaxFields - 1
=============================================================================
